---- MODULE Spec2Model ----
(***************************************************************************)
(* Verification model of netrun-llm: the policy enforcer (policies.py),    *)
(* the adapter circuit breaker, the fallback chain and the Azure OpenAI    *)
(* and Gemini adapters.                                                    *)
(*                                                                         *)
(* Money is counted in micro-USD (1 USD = 1000000), so that the float      *)
(* sums of the source (0.95 + 0.066 > 1.0) are exact integer sums.         *)
(* Time is counted in whole seconds since the construction of the objects. *)
(***************************************************************************)
EXTENDS Integers, Sequences, FiniteSets, TLC

\* ------------------------------------------------------------------------
\* Bounds of the model
\* ------------------------------------------------------------------------
\* seconds explored after each midnight
MaxSec == 61
\* days explored after the construction day
MaxDay == 1
\* usage records kept by one enforcer
MaxRecords == 2
\* entries of one provider's rate-limit window
MaxWindow == 3

\* ------------------------------------------------------------------------
\* Program constants
\* ------------------------------------------------------------------------
\* the sliding window of _check_rate_limits: minute_ago = now - 60
RATE_WINDOW_SECONDS == 60
\* datetime.utcnow().date() advances every 86400 seconds
SECONDS_PER_DAY == 86400

\* Optional[T]: None is the empty sequence, a value v is <<v>>
None == <<>>
Some(v) == <<v>>
IsNone(o) == o = <<>>
Val(o) == o[1]

\* tier_order of _tier_exceeds_limit, by index
TierOrder == <<"free", "low", "medium", "high", "premium">>

\* MODEL_COSTS, (input, output) in micro-USD per 1K tokens
MODEL_COSTS ==
    [m \in {"gpt-4o", "claude-3-opus", "llama3"} |->
        CASE m = "gpt-4o" -> <<2500, 10000>>
          [] m = "claude-3-opus" -> <<15000, 75000>>
          [] m = "llama3" -> <<0, 0>>]

\* MODEL_COST_TIERS
MODEL_COST_TIERS ==
    [m \in {"gpt-4o", "claude-3-opus", "llama3"} |->
        CASE m = "gpt-4o" -> "medium"
          [] m = "claude-3-opus" -> "high"
          [] m = "llama3" -> "free"]

\* ProviderPolicy(provider=...) with every field at its default
DefaultProviderPolicy ==
    [enabled |-> TRUE,
     allowed_models |-> {},
     denied_models |-> {},
     max_tokens_per_request |-> 4096,
     max_cost_per_request |-> 1000000,
     rate_limit_rpm |-> 60,
     rate_limit_tpm |-> 100000,
     cost_tier_limit |-> None,
     require_reason |-> FALSE]

\* TenantPolicy(tenant_id=...) with every field at its default
DefaultTenantPolicy ==
    [monthly_budget_usd |-> 100000000,
     daily_budget_usd |-> None,
     provider_policies |-> [p \in {} |-> DefaultProviderPolicy],
     fallback_to_local |-> TRUE,
     track_usage |-> TRUE]

\* ------------------------------------------------------------------------
\* Inputs explored
\* ------------------------------------------------------------------------
Providers == {"anthropic", "ollama"}
Models == {"claude-3-opus", "gpt-4o", "llama3", "my-local-model"}
TokenEstimates == {1000, 2000, 5000}
Reasons == {None, Some("chatbot")}
RecordCosts == {50000, 950000}
TickSteps == {29, 30}
\* the narrower inputs of the specifications that explore long call sequences
FewModels == {"claude-3-opus", "llama3"}
FewTokenEstimates == {1000, 2000}

VARIABLES
    now,                \* wall clock, seconds
    policy,             \* PolicyEnforcer.policy
    usage_records,      \* PolicyEnforcer.usage_records
    monthly_spend,      \* PolicyEnforcer._monthly_spend
    daily_spend,        \* PolicyEnforcer._daily_spend
    last_daily_reset,   \* PolicyEnforcer._last_daily_reset
    rate_limit_state,   \* PolicyEnforcer._rate_limit_state
    result,             \* the last call: its inputs, what it found, its outcome
    adapters,           \* adapter name -> adapter object
    chain,              \* LLMFallbackChain: its adapters and ChainMetrics
    world,              \* what lies outside the process: providers, files
    threads,            \* callers running concurrently: position and locals
    collector           \* TelemetryCollector: history, tenant index, lock

enforcerFields == <<policy, usage_records, monthly_spend, daily_spend,
                    last_daily_reset, rate_limit_state>>
enforcerVars == <<enforcerFields, result>>
otherVars == <<adapters, chain, world, threads, collector>>
vars == <<now, enforcerVars, otherVars>>

\* datetime.utcnow().date()
DateOf(t) == t \div SECONDS_PER_DAY

NoResult == [op |-> "none"]

\* ------------------------------------------------------------------------
\* PolicyEnforcer: pure helpers
\* ------------------------------------------------------------------------
\* self.policy.provider_policies.get(provider, ProviderPolicy(provider=provider))
ProviderPolicyOf(pol, provider) ==
    IF provider \in DOMAIN pol.provider_policies
    THEN pol.provider_policies[provider]
    ELSE DefaultProviderPolicy

TierIndex(tier) == CHOOSE i \in 1..Len(TierOrder) : TierOrder[i] = tier

tier_exceeds_limit(model_tier, limit_tier) ==
    TierIndex(model_tier) > TierIndex(limit_tier)

\* int(tokens * 0.7): equal to floor(7 * tokens / 10) for every token count
\* in TokenEstimates
estimate_cost(model, tokens) ==
    IF model \notin DOMAIN MODEL_COSTS
    THEN 0
    ELSE LET input_cost == MODEL_COSTS[model][1]
             output_cost == MODEL_COSTS[model][2]
             input_tokens == (tokens * 7) \div 10
             output_tokens == tokens - input_tokens
         IN (input_tokens * input_cost + output_tokens * output_cost) \div 1000

\* the truth value Python gives an Optional[float]: None and 0.0 are false
Truthy(o) == ~IsNone(o) /\ Val(o) # 0

\* "not reason" for an Optional[str]
ReasonMissing(reason) == IsNone(reason) \/ Val(reason) = ""

\* ------------------------------------------------------------------------
\* PolicyEnforcer.validate_request
\* ------------------------------------------------------------------------
\* The rules evaluated before the budgets, in source order; the name of the
\* first one that raises, or "none"
ProviderRule(pp, model, estimated_tokens, estimated_cost) ==
    IF ~pp.enabled
    THEN "enabled"
    ELSE IF pp.denied_models # {} /\ model \in pp.denied_models
    THEN "denied_models"
    ELSE IF pp.allowed_models # {} /\ model \notin pp.allowed_models
    THEN "allowed_models"
    ELSE IF /\ ~IsNone(pp.cost_tier_limit)
            /\ model \in DOMAIN MODEL_COST_TIERS
            /\ tier_exceeds_limit(MODEL_COST_TIERS[model], Val(pp.cost_tier_limit))
    THEN "cost_tier_limit"
    ELSE IF estimated_tokens > pp.max_tokens_per_request
    THEN "max_tokens_per_request"
    ELSE IF pp.max_cost_per_request > 0 /\ estimated_cost > pp.max_cost_per_request
    THEN "max_cost_per_request"
    ELSE "none"

\* The daily then the monthly budget check, on the spend counters as they are
\* after _reset_daily_budget_if_needed
BudgetRule(pol, daily, monthly, estimated_cost) ==
    IF Truthy(pol.daily_budget_usd) /\ daily + estimated_cost > Val(pol.daily_budget_usd)
    THEN "daily_budget"
    ELSE IF monthly + estimated_cost > pol.monthly_budget_usd
    THEN "monthly_budget"
    ELSE "none"

\* The exception class raised for a failing rule
ErrorOf(rule, pol) ==
    CASE rule = "none" -> "none"
      [] rule = "enabled" -> "ProviderDisabledError"
      [] rule \in {"daily_budget", "monthly_budget"} ->
            IF pol.fallback_to_local THEN "FallbackToLocalError" ELSE "BudgetExceededError"
      [] rule \in {"rate_limit_rpm", "rate_limit_tpm"} -> "RateLimitExceededError"
      [] OTHER -> "PolicyViolationError"

EmptyWindow == [requests |-> <<>>, tokens |-> <<>>]

\* self._rate_limit_state[provider], as created on first use
WindowOf(state, provider) ==
    IF provider \in DOMAIN state THEN state[provider] ELSE EmptyWindow

SetWindow(state, provider, w) ==
    [p \in (DOMAIN state) \cup {provider} |-> IF p = provider THEN w ELSE state[p]]

RECURSIVE SumTokenCounts(_)
SumTokenCounts(entries) ==
    IF entries = <<>> THEN 0
    ELSE Head(entries)[2] + SumTokenCounts(Tail(entries))

\* "Clean old entries": keep the entries younger than one minute
PruneWindow(w, t) ==
    LET minute_ago == t - RATE_WINDOW_SECONDS
        IsRecent(ts) == ts > minute_ago
        IsRecentEntry(e) == e[1] > minute_ago
    IN [requests |-> SelectSeq(w.requests, IsRecent),
        tokens |-> SelectSeq(w.tokens, IsRecentEntry)]

\* mutant: the RPM comparison is off by one
RateRuleOffByOne(w, pp, tokens) ==
    IF pp.rate_limit_rpm > 0 /\ Len(w.requests) > pp.rate_limit_rpm
    THEN "rate_limit_rpm"
    ELSE IF pp.rate_limit_tpm > 0 /\ SumTokenCounts(w.tokens) + tokens > pp.rate_limit_tpm
    THEN "rate_limit_tpm"
    ELSE "none"

\* mutant: the TPM check leaves out the tokens of the request itself
RateRuleTpmWithoutRequest(w, pp, tokens) ==
    IF pp.rate_limit_rpm > 0 /\ Len(w.requests) >= pp.rate_limit_rpm
    THEN "rate_limit_rpm"
    ELSE IF pp.rate_limit_tpm > 0 /\ SumTokenCounts(w.tokens) > pp.rate_limit_tpm
    THEN "rate_limit_tpm"
    ELSE "none"

\* The RPM then the TPM check on a pruned window
RateRule(w, pp, tokens) ==
    IF pp.rate_limit_rpm > 0 /\ Len(w.requests) >= pp.rate_limit_rpm
    THEN "rate_limit_rpm"
    ELSE IF pp.rate_limit_tpm > 0 /\ SumTokenCounts(w.tokens) + tokens > pp.rate_limit_tpm
    THEN "rate_limit_tpm"
    ELSE "none"

\* "Record this request"
RecordInWindow(w, t, tokens) ==
    [requests |-> Append(w.requests, t),
     tokens |-> Append(w.tokens, <<t, tokens>>)]

\* _check_rate_limits: the rule that raises (or "none") and the state it leaves
check_rate_limits(state, provider, pp, tokens, t) ==
    LET pruned == PruneWindow(WindowOf(state, provider), t)
        rule == RateRule(pruned, pp, tokens)
    IN [rule |-> rule,
        state |-> SetWindow(state, provider,
                            IF rule = "none" THEN RecordInWindow(pruned, t, tokens)
                            ELSE pruned)]

\* The rule checked last
ReasonRule(pp, reason) ==
    IF pp.require_reason /\ ReasonMissing(reason) THEN "require_reason" ELSE "none"

reset_daily_budget_same_day(daily, last_reset, state, t) ==
    [daily_spend |-> IF DateOf(t) >= last_reset THEN 0 ELSE daily,
     last_daily_reset |-> IF DateOf(t) >= last_reset THEN DateOf(t) ELSE last_reset,
     rate_limit_state |-> state]

reset_daily_budget_keeps_date(daily, last_reset, state, t) ==
    [daily_spend |-> IF DateOf(t) > last_reset THEN 0 ELSE daily,
     last_daily_reset |-> last_reset,
     rate_limit_state |-> state]

\* _reset_daily_budget_if_needed: on a date after the last reset the daily
\* spend becomes zero and the date of the last reset the current date
reset_daily_budget_if_needed(daily, last_reset, state, t) ==
    [daily_spend |-> IF DateOf(t) > last_reset THEN 0 ELSE daily,
     last_daily_reset |-> IF DateOf(t) > last_reset THEN DateOf(t) ELSE last_reset,
     rate_limit_state |-> state]

\* validate_request as a function of the state it reads: the rule that raises
\* (or "none") and the values it leaves in the fields it writes
validate_request_eval(pol, daily, monthly, last_reset, state, t, provider, model, estimated_tokens, reason) ==
    LET pp == ProviderPolicyOf(pol, provider)
        estimated_cost == estimate_cost(model, estimated_tokens)
        early == ProviderRule(pp, model, estimated_tokens, estimated_cost)
        after_reset == reset_daily_budget_if_needed(daily, last_reset, state, t)
        budget == BudgetRule(pol, after_reset.daily_spend, monthly, estimated_cost)
        rl == check_rate_limits(state, provider, pp, estimated_tokens, t)
        late == ReasonRule(pp, reason)
        unchanged == [daily_spend |-> daily, last_daily_reset |-> last_reset,
                      rate_limit_state |-> state]
        after_rate == [after_reset EXCEPT !.rate_limit_state = rl.state]
    IN IF early # "none" THEN [rule |-> early, fields |-> unchanged]
       ELSE IF budget # "none" THEN [rule |-> budget, fields |-> after_reset]
       ELSE IF rl.rule # "none" THEN [rule |-> rl.rule, fields |-> after_rate]
       ELSE [rule |-> late, fields |-> after_rate]

\* What a caller observes of one validate_request call, with the values of
\* the fields as the call found them
ValidateResult(provider, model, estimated_tokens, reason, ev) ==
    [op |-> "validate_request",
     provider |-> provider,
     model |-> model,
     estimated_tokens |-> estimated_tokens,
     reason |-> reason,
     at |-> now,
     rule |-> ev.rule,
     error |-> ErrorOf(ev.rule, policy),
     daily_before |-> daily_spend,
     monthly_before |-> monthly_spend,
     reset_before |-> last_daily_reset,
     window_before |-> WindowOf(rate_limit_state, provider)]

\* the body of validate_request, on the fields of the enforcer
validate_request_body(provider, model, estimated_tokens, reason) ==
    LET ev == validate_request_eval(policy, daily_spend, monthly_spend,
                                    last_daily_reset, rate_limit_state, now,
                                    provider, model, estimated_tokens, reason)
    IN /\ Len(PruneWindow(WindowOf(rate_limit_state, provider), now).requests) < MaxWindow
       /\ daily_spend' = ev.fields.daily_spend
       /\ last_daily_reset' = ev.fields.last_daily_reset
       /\ rate_limit_state' = ev.fields.rate_limit_state
       /\ result' = ValidateResult(provider, model, estimated_tokens, reason, ev)
       /\ UNCHANGED <<now, policy, usage_records, monthly_spend>>

validate_request(provider, model, estimated_tokens, reason) ==
    /\ validate_request_body(provider, model, estimated_tokens, reason)
    /\ UNCHANGED otherVars

\* ------------------------------------------------------------------------
\* PolicyEnforcer.record_usage, reset_monthly_budget
\* ------------------------------------------------------------------------
UsageRecord(provider, model, tokens_input, tokens_output, cost_usd, latency_ms, success) ==
    [timestamp |-> now,
     provider |-> provider,
     model |-> model,
     tokens_input |-> tokens_input,
     tokens_output |-> tokens_output,
     tokens_total |-> tokens_input + tokens_output,
     cost_usd |-> cost_usd,
     latency_ms |-> latency_ms,
     success |-> success]

record_usage_newest_only(provider, model, tokens_input, tokens_output, cost_usd, latency_ms, success) ==
    /\ Len(usage_records) < MaxRecords
    /\ policy.track_usage
    /\ usage_records' = <<UsageRecord(provider, model, tokens_input, tokens_output,
                                      cost_usd, latency_ms, success)>>
    /\ monthly_spend' = monthly_spend + cost_usd
    /\ daily_spend' = daily_spend + cost_usd
    /\ result' = [op |-> "record_usage", cost_usd |-> cost_usd,
                  monthly_before |-> monthly_spend, daily_before |-> daily_spend,
                  records_before |-> Len(usage_records)]
    /\ UNCHANGED <<now, policy, last_daily_reset, rate_limit_state, otherVars>>

\* the body of record_usage, on the fields of the enforcer
record_usage_body(provider, model, tokens_input, tokens_output, cost_usd, latency_ms, success) ==
    /\ Len(usage_records) < MaxRecords
    /\ IF ~policy.track_usage
       THEN UNCHANGED <<usage_records, monthly_spend, daily_spend>>
       ELSE /\ usage_records' = Append(usage_records,
                    UsageRecord(provider, model, tokens_input, tokens_output,
                                cost_usd, latency_ms, success))
            /\ monthly_spend' = monthly_spend + cost_usd
            /\ daily_spend' = daily_spend + cost_usd
    /\ result' = [op |-> "record_usage", cost_usd |-> cost_usd,
                  monthly_before |-> monthly_spend, daily_before |-> daily_spend,
                  records_before |-> Len(usage_records)]
    /\ UNCHANGED <<now, policy, last_daily_reset, rate_limit_state>>

record_usage(provider, model, tokens_input, tokens_output, cost_usd, latency_ms, success) ==
    /\ record_usage_body(provider, model, tokens_input, tokens_output,
                         cost_usd, latency_ms, success)
    /\ UNCHANGED otherVars

reset_monthly_budget ==
    /\ monthly_spend # 0
    /\ monthly_spend' = 0
    /\ result' = [op |-> "reset_monthly_budget"]
    /\ UNCHANGED <<now, policy, usage_records, daily_spend, last_daily_reset,
                   rate_limit_state, otherVars>>

\* ------------------------------------------------------------------------
\* The wall clock
\* ------------------------------------------------------------------------
\* time passes within the day
TickSeconds(d) ==
    /\ (now % SECONDS_PER_DAY) + d <= MaxSec
    /\ now' = now + d
    /\ UNCHANGED <<enforcerVars, otherVars>>

\* time passes until the next midnight (UTC)
NextMidnight ==
    /\ DateOf(now) < MaxDay
    /\ now' = (DateOf(now) + 1) * SECONDS_PER_DAY
    /\ UNCHANGED <<enforcerVars, otherVars>>

\* ------------------------------------------------------------------------
\* Tenant policies explored
\* ------------------------------------------------------------------------
TenantWith(monthly, daily, fallback, provider_policies) ==
    [DefaultTenantPolicy EXCEPT
        !.monthly_budget_usd = monthly,
        !.daily_budget_usd = daily,
        !.fallback_to_local = fallback,
        !.provider_policies = provider_policies]

\* budgets of 1 USD (or none, or zero) around a recorded spend of 0.95 USD
BudgetPolicies ==
    {TenantWith(1000000, daily, fallback,
                [p \in {"anthropic"} |-> DefaultProviderPolicy]) :
        daily \in {None, Some(0), Some(1000000)}, fallback \in BOOLEAN}

\* small rate limits for two providers, budgets out of reach
RatePolicies ==
    {TenantWith(100000000, None, TRUE,
                [p \in {"anthropic", "ollama"} |->
                    IF p = "anthropic"
                    THEN [DefaultProviderPolicy EXCEPT
                            !.rate_limit_rpm = rpm,
                            !.rate_limit_tpm = tpm,
                            !.require_reason = rr]
                    ELSE [DefaultProviderPolicy EXCEPT
                            !.rate_limit_rpm = 1,
                            !.rate_limit_tpm = 0]]) :
        rpm \in {0, 2}, tpm \in {0, 3000}, rr \in BOOLEAN}

\* ------------------------------------------------------------------------
\* Specifications of the policy enforcer
\* ------------------------------------------------------------------------
InitEnforcer(policies) ==
    /\ now = 0
    /\ policy \in policies
    /\ usage_records = <<>>
    /\ monthly_spend = 0
    /\ daily_spend = 0
    /\ last_daily_reset = DateOf(0)
    /\ rate_limit_state = [p \in {} |-> EmptyWindow]
    /\ result = NoResult
    /\ adapters = <<>>
    /\ chain = <<>>
    /\ world = <<>>
    /\ threads = <<>>
    /\ collector = <<>>

\* validate_request calls around the budgets: the model decides the cost
ValidateBudget ==
    \E model \in FewModels, estimated_tokens \in FewTokenEstimates :
        validate_request("anthropic", model, estimated_tokens, None)

\* validate_request calls around the rate limits: the tokens and the reason
\* decide the outcome
ValidateRate ==
    \E provider \in Providers, estimated_tokens \in FewTokenEstimates, reason \in Reasons :
        validate_request(provider, "llama3", estimated_tokens, reason)

RecordUsage ==
    \E cost_usd \in RecordCosts :
        record_usage("anthropic", "claude-3-opus", 500, 500, cost_usd, 1000, TRUE)

ResetMonthly == reset_monthly_budget

Tick == \E d \in TickSteps : TickSeconds(d)

NextBudget ==
    \/ ValidateBudget
    \/ RecordUsage
    \/ ResetMonthly
    \/ NextMidnight

InitBudget == InitEnforcer(BudgetPolicies)
SpecBudget == InitBudget /\ [][NextBudget]_vars

\* ---- helpers of the properties ----
ProviderRuleNames ==
    {"enabled", "denied_models", "allowed_models", "cost_tier_limit",
     "max_tokens_per_request", "max_cost_per_request"}

IsValidate == result.op = "validate_request"

\* the cost estimate of the last validated request: tokens split 70/30,
\* priced per 1000 tokens, unknown models free
EstimateOfResult ==
    IF result.model \in DOMAIN MODEL_COSTS
    THEN LET inp == (result.estimated_tokens * 7) \div 10
             out == result.estimated_tokens - inp
             rates == MODEL_COSTS[result.model]
         IN ((inp * rates[1]) + (out * rates[2])) \div 1000
    ELSE 0

\* the daily spend the budget check of the last validation compared: zero
\* when the date had advanced past the last reset
DailySpendChecked ==
    IF result.at \div SECONDS_PER_DAY > result.reset_before THEN 0 ELSE result.daily_before

\* C1 (as claimed): past the provider, model, token and per-request cost
\* rules, a request whose estimate would take the daily spend over a set
\* daily budget, or the monthly spend over the monthly budget, raises
\* FallbackToLocalError when fallback_to_local is set and BudgetExceededError
\* otherwise; a request that exceeds neither budget raises no budget error.
C1_BudgetErrors ==
    (IsValidate /\ result.rule \notin ProviderRuleNames) =>
        LET daily_exceeded ==
                /\ policy.daily_budget_usd # None
                /\ DailySpendChecked + EstimateOfResult > policy.daily_budget_usd[1]
            monthly_exceeded ==
                result.monthly_before + EstimateOfResult > policy.monthly_budget_usd
        IN IF daily_exceeded \/ monthly_exceeded
           THEN result.error = IF policy.fallback_to_local
                               THEN "FallbackToLocalError"
                               ELSE "BudgetExceededError"
           ELSE result.error \notin {"FallbackToLocalError", "BudgetExceededError"}

NextRate ==
    \/ ValidateRate
    \/ Tick

InitRate == InitEnforcer(RatePolicies)
SpecRate == InitRate /\ [][NextRate]_vars

\* the number of timestamps of a window that lie in the 60 seconds before t
RecentRequests(w, t) ==
    Cardinality({i \in DOMAIN w.requests : w.requests[i] > t - RATE_WINDOW_SECONDS})

RECURSIVE RecentTokens(_, _)
RecentTokens(entries, t) ==
    IF entries = <<>> THEN 0
    ELSE (IF Head(entries)[1] > t - RATE_WINDOW_SECONDS THEN Head(entries)[2] ELSE 0)
         + RecentTokens(Tail(entries), t)

\* the last validation got as far as the rate limits
ReachedRateLimits ==
    /\ IsValidate
    /\ result.rule \in {"rate_limit_rpm", "rate_limit_tpm", "require_reason", "none"}

ResultPolicy == ProviderPolicyOf(policy, result.provider)

\* the last validation went past the rate limits and was recorded in the window
Admitted ==
    /\ ReachedRateLimits
    /\ result.rule \in {"require_reason", "none"}

\* C2: with rate_limit_rpm = N > 0, the requests recorded for a provider in
\* the trailing 60 seconds never number more than N; a validation that
\* reaches the rate limits is rejected by the RPM rule exactly when N
\* requests of the trailing 60 seconds are already recorded, and one that
\* finds fewer (and room under the TPM limit) is admitted and recorded.
C2_RpmWindow ==
    /\ \A p \in DOMAIN rate_limit_state :
          ProviderPolicyOf(policy, p).rate_limit_rpm > 0 =>
              RecentRequests(rate_limit_state[p], now)
                  <= ProviderPolicyOf(policy, p).rate_limit_rpm
    /\ (ReachedRateLimits /\ ResultPolicy.rate_limit_rpm > 0) =>
          LET n == ResultPolicy.rate_limit_rpm
              tpm == ResultPolicy.rate_limit_tpm
              before == RecentRequests(result.window_before, result.at)
              room == tpm = 0 \/ RecentTokens(result.window_before.tokens, result.at)
                                    + result.estimated_tokens <= tpm
          IN /\ (result.rule = "rate_limit_rpm") <=> (before >= n)
             /\ (before < n /\ room) =>
                    /\ Admitted
                    /\ RecentRequests(rate_limit_state[result.provider], result.at)
                           = before + 1

\* C2 witness: the third request inside one minute is rejected with RPM = 2
C2_Witness ==
    /\ ReachedRateLimits
    /\ result.provider = "anthropic"
    /\ ResultPolicy.rate_limit_rpm = 2
    /\ result.rule = "rate_limit_rpm"
    /\ RecentRequests(result.window_before, result.at) = 2
    /\ result.at > 0

\* ------------------------------------------------------------------------
\* The rule order of validate_request, over every combination of rules
\* ------------------------------------------------------------------------
\* every rule of the provider policy switched on or off, two budgets
RulePolicies ==
    {TenantWith(monthly, daily, fallback,
                [p \in {"anthropic"} |->
                    [enabled |-> en,
                     allowed_models |-> allowed,
                     denied_models |-> denied,
                     max_tokens_per_request |-> 4096,
                     max_cost_per_request |-> max_cost,
                     rate_limit_rpm |-> rpm,
                     rate_limit_tpm |-> tpm,
                     cost_tier_limit |-> tier,
                     require_reason |-> rr]]) :
        monthly \in {50000, 100000000},
        daily \in {None, Some(0), Some(40000)},
        fallback \in {FALSE},
        en \in BOOLEAN,
        allowed \in {{}, {"claude-3-opus"}, {"llama3"}},
        denied \in {{}, {"claude-3-opus"}},
        max_cost \in {0, 50000},
        rpm \in {0, 1},
        tpm \in {0, 2000},
        tier \in {None, Some("medium")},
        rr \in BOOLEAN}

ValidateAny ==
    \E model \in Models, estimated_tokens \in TokenEstimates, reason \in Reasons :
        validate_request("anthropic", model, estimated_tokens, reason)

NextRules ==
    \/ ValidateAny

InitRules == InitEnforcer(RulePolicies)
SpecRules == InitRules /\ [][NextRules]_vars

\* the order the claim gives to the rules
RuleOrder ==
    <<"enabled", "denied_models", "allowed_models", "cost_tier_limit",
      "max_tokens_per_request", "max_cost_per_request", "daily_budget",
      "monthly_budget", "rate_limit_rpm", "rate_limit_tpm", "require_reason">>

TierRank == [free |-> 0, low |-> 1, medium |-> 2, high |-> 3, premium |-> 4]

\* each rule on its own, as the specification states it, on the values the
\* last validation found
RuleFails(rule) ==
    LET pp == ResultPolicy
        before == RecentRequests(result.window_before, result.at)
        tokens_before == RecentTokens(result.window_before.tokens, result.at)
    IN CASE rule = "enabled" -> ~pp.enabled
         [] rule = "denied_models" -> result.model \in pp.denied_models
         [] rule = "allowed_models" ->
                pp.allowed_models # {} /\ result.model \notin pp.allowed_models
         [] rule = "cost_tier_limit" ->
                /\ pp.cost_tier_limit # None
                /\ result.model \in DOMAIN MODEL_COST_TIERS
                /\ TierRank[MODEL_COST_TIERS[result.model]] > TierRank[pp.cost_tier_limit[1]]
         [] rule = "max_tokens_per_request" ->
                result.estimated_tokens > pp.max_tokens_per_request
         [] rule = "max_cost_per_request" ->
                pp.max_cost_per_request > 0 /\ EstimateOfResult > pp.max_cost_per_request
         [] rule = "daily_budget" ->
                /\ policy.daily_budget_usd # None
                /\ DailySpendChecked + EstimateOfResult > policy.daily_budget_usd[1]
         [] rule = "monthly_budget" ->
                result.monthly_before + EstimateOfResult > policy.monthly_budget_usd
         [] rule = "rate_limit_rpm" ->
                pp.rate_limit_rpm > 0 /\ before >= pp.rate_limit_rpm
         [] rule = "rate_limit_tpm" ->
                /\ pp.rate_limit_tpm > 0
                /\ tokens_before + result.estimated_tokens > pp.rate_limit_tpm
         [] rule = "require_reason" ->
                pp.require_reason /\ result.reason \in {None, Some("")}

FailingRules == {i \in DOMAIN RuleOrder : RuleFails(RuleOrder[i])}

FirstFailingRule ==
    IF FailingRules = {} THEN "none"
    ELSE RuleOrder[CHOOSE i \in FailingRules : \A j \in FailingRules : i <= j]

\* C3: validate_request raises the error of the first failing rule in the
\* order enabled, denied list, allowed list, cost tier, token ceiling, cost
\* ceiling, daily budget, monthly budget, rate limits, reason required (and
\* returns normally when no rule fails); a disabled provider always yields
\* ProviderDisabledError and a denied model is rejected as denied whatever
\* the allowed list holds.
C3_RuleOrder ==
    IsValidate =>
        /\ result.rule = FirstFailingRule
        /\ (~ResultPolicy.enabled) <=> (result.error = "ProviderDisabledError")
        /\ (ResultPolicy.enabled /\ result.model \in ResultPolicy.denied_models) =>
                (result.rule = "denied_models" /\ result.error = "PolicyViolationError")
        /\ result.rule \in {"daily_budget", "monthly_budget"} <=>
                result.error \in {"FallbackToLocalError", "BudgetExceededError"}
        /\ result.rule \in {"rate_limit_rpm", "rate_limit_tpm"} <=>
                result.error = "RateLimitExceededError"

\* ------------------------------------------------------------------------
\* BaseLLMAdapter: health counters and circuit breaker
\* ------------------------------------------------------------------------
MaxCalls == 4
MaxClock == 5
Thresholds == {2, 3}
Cooldowns == {2}

\* the enforcer is not part of the scenario
IdleEnforcer ==
    /\ policy = DefaultTenantPolicy
    /\ usage_records = <<>>
    /\ monthly_spend = 0
    /\ daily_spend = 0
    /\ last_daily_reset = DateOf(0)
    /\ rate_limit_state = [p \in {} |-> EmptyWindow]

\* BaseLLMAdapter.__init__
BaseLLMAdapter(adapter_name, enabled, threshold, cooldown) ==
    [adapter_name |-> adapter_name,
     enabled |-> enabled,
     success_count |-> 0,
     failure_count |-> 0,
     consecutive_failures |-> 0,
     circuit_breaker_open |-> FALSE,
     circuit_breaker_open_time |-> None,
     circuit_breaker_threshold |-> threshold,
     circuit_breaker_cooldown |-> cooldown]

\* _record_success: the counter of consecutive failures restarts; an open
\* breaker stays open
record_success(a) ==
    [a EXCEPT !.success_count = @ + 1,
              !.consecutive_failures = 0]

\* mutant: the breaker opens one failure late
record_failure_late(a, t) ==
    LET n == a.consecutive_failures + 1
        reached == n > a.circuit_breaker_threshold
    IN [a EXCEPT !.failure_count = @ + 1,
                 !.consecutive_failures = n,
                 !.circuit_breaker_open = IF reached THEN TRUE ELSE @,
                 !.circuit_breaker_open_time = IF reached THEN Some(t) ELSE @]

\* _record_failure: count, and open the breaker at the threshold
record_failure(a, t) ==
    LET n == a.consecutive_failures + 1
        reached == n >= a.circuit_breaker_threshold
    IN [a EXCEPT !.failure_count = @ + 1,
                 !.consecutive_failures = n,
                 !.circuit_breaker_open = IF reached THEN TRUE ELSE @,
                 !.circuit_breaker_open_time = IF reached THEN Some(t) ELSE @]

\* mutant: the cooldown has to be exceeded
cooldown_elapsed_late(a, t) ==
    \/ IsNone(a.circuit_breaker_open_time)
    \/ t - Val(a.circuit_breaker_open_time) > a.circuit_breaker_cooldown

\* the cooldown test of _check_circuit_breaker; a breaker without an open
\* time counts as cooled down
cooldown_elapsed(a, t) ==
    \/ IsNone(a.circuit_breaker_open_time)
    \/ t - Val(a.circuit_breaker_open_time) >= a.circuit_breaker_cooldown

\* _check_circuit_breaker: the adapter afterwards and the value returned
check_circuit_breaker(a, t) ==
    IF a.circuit_breaker_open /\ cooldown_elapsed(a, t)
    THEN [adapter |-> [a EXCEPT !.circuit_breaker_open = FALSE,
                                !.consecutive_failures = 0],
          is_open |-> FALSE]
    ELSE [adapter |-> a, is_open |-> a.circuit_breaker_open]

AdapterCall(op, n, returned) ==
    [op |-> op, adapter |-> n, at |-> now, before |-> adapters[n],
     is_open |-> returned]

RecordSuccess(n) ==
    /\ adapters[n].success_count < MaxCalls
    /\ adapters' = [adapters EXCEPT ![n] = record_success(@)]
    /\ result' = AdapterCall("record_success", n, FALSE)
    /\ UNCHANGED <<now, collector, enforcerFields, chain, world, threads>>

RecordFailure(n) ==
    /\ adapters[n].failure_count < MaxCalls
    /\ adapters' = [adapters EXCEPT ![n] = record_failure(@, now)]
    /\ result' = AdapterCall("record_failure", n, FALSE)
    /\ UNCHANGED <<now, collector, enforcerFields, chain, world, threads>>

CheckCircuitBreaker(n) ==
    LET checked == check_circuit_breaker(adapters[n], now)
    IN /\ adapters' = [adapters EXCEPT ![n] = checked.adapter]
       /\ result' = AdapterCall("check_circuit_breaker", n, checked.is_open)
       /\ UNCHANGED <<now, collector, enforcerFields, chain, world, threads>>

\* time.sleep
Sleep ==
    /\ now < MaxClock
    /\ TickSeconds(1)

InitBreaker ==
    /\ now = 0
    /\ IdleEnforcer
    /\ result = NoResult
    /\ \E threshold \in Thresholds, cooldown \in Cooldowns :
          adapters = [n \in {"TestAdapter"} |->
                         BaseLLMAdapter(n, TRUE, threshold, cooldown)]
    /\ chain = <<>>
    /\ world = <<>>
    /\ threads = <<>>
    /\ collector = <<>>

NextBreaker ==
    \/ RecordSuccess("TestAdapter")
    \/ RecordFailure("TestAdapter")
    \/ CheckCircuitBreaker("TestAdapter")
    \/ Sleep

SpecBreaker == InitBreaker /\ [][NextBreaker]_vars

\* C7 as stated: the breaker is open if and only if the consecutive
\* failures are at least the threshold.
C7_OpenIffThreshold ==
    \A n \in DOMAIN adapters :
        adapters[n].circuit_breaker_open <=>
            adapters[n].consecutive_failures >= adapters[n].circuit_breaker_threshold

\* C7, amended: a closed breaker has fewer consecutive failures than the
\* threshold; a recorded failure adds one to the counter and leaves the
\* breaker open exactly if it was open or the counter has reached the
\* threshold; a recorded success resets the counter to zero and leaves the
\* breaker as it was (an open breaker stays open with a counter of zero).
C7_BreakerOpening ==
    \A n \in DOMAIN adapters :
        LET a == adapters[n]
        IN /\ ~a.circuit_breaker_open =>
                a.consecutive_failures < a.circuit_breaker_threshold
           /\ (result.op = "record_failure" /\ result.adapter = n) =>
                /\ a.consecutive_failures = result.before.consecutive_failures + 1
                /\ a.circuit_breaker_open <=>
                      \/ result.before.circuit_breaker_open
                      \/ a.consecutive_failures >= a.circuit_breaker_threshold
           /\ (result.op = "record_success" /\ result.adapter = n) =>
                /\ a.consecutive_failures = 0
                /\ a.circuit_breaker_open = result.before.circuit_breaker_open

\* C7 witness: a success recorded on a breaker that the threshold opened
C7_Witness ==
    /\ result.op = "record_success"
    /\ result.before.circuit_breaker_open
    /\ result.before.consecutive_failures >= result.before.circuit_breaker_threshold
    /\ adapters[result.adapter].circuit_breaker_open
    /\ adapters[result.adapter].consecutive_failures = 0

\* the call made by a step, if the step is a call on adapter n
CallOn(n, op) ==
    /\ result' # result
    /\ result'.op = op
    /\ result'.adapter = n

MaxRequests == 3
Behaviours == {"success", "error", "raise"}

\* the adapters of the chain tests: MockAdapter (should_fail or not) and an
\* adapter whose execute raises
MockAdapter(name, behaviour, is_available) ==
    [adapter_name |-> name,
     enabled |-> TRUE,
     success_count |-> 0,
     failure_count |-> 0,
     consecutive_failures |-> 0,
     circuit_breaker_open |-> FALSE,
     circuit_breaker_open_time |-> None,
     circuit_breaker_threshold |-> 5,
     circuit_breaker_cooldown |-> 300,
     behaviour |-> behaviour,
     is_available |-> is_available,
     cost |-> 1000,
     call_count |-> 0]

mock_check_availability(a) == a.is_available

LLMResponse(status, adapter_name, cost_usd) ==
    [status |-> status, adapter_name |-> adapter_name, cost_usd |-> cost_usd,
     metadata |-> [fallback_attempts |-> None]]

\* MockAdapter.execute: the adapter afterwards, whether it raised, its response
mock_execute(a, t) ==
    LET called == [a EXCEPT !.call_count = @ + 1]
    IN CASE a.behaviour = "raise" ->
                [adapter |-> called, raised |-> TRUE,
                 error |-> "Simulated execution error",
                 response |-> LLMResponse("error", a.adapter_name, 0)]
         [] a.behaviour = "error" ->
                [adapter |-> record_failure(called, t), raised |-> FALSE,
                 error |-> "Mock failure",
                 response |-> LLMResponse("error", a.adapter_name, 0)]
         [] OTHER ->
                [adapter |-> record_success(called), raised |-> FALSE,
                 error |-> "",
                 response |-> LLMResponse("success", a.adapter_name, a.cost)]

\* mutant: every response counts as a success
is_success_any_status(response) == response.status \in {"success", "error"}

\* LLMResponse.is_success
is_success(response) == response.status = "success"

ChainMetrics ==
    [total_requests |-> 0,
     successful_requests |-> 0,
     failed_requests |-> 0,
     fallback_triggers |-> 0,
     adapter_usage |-> [n \in {} |-> 0],
     total_cost_usd |-> 0]

\* mutant: every successful request counts as a fallback
fallback_used_always(failed_adapters) == Len(failed_adapters) >= 0

\* the chain fell back if an earlier adapter failed or was skipped
fallback_used(failed_adapters) == Len(failed_adapters) > 0

\* _update_metrics after a success
update_metrics(metrics, response, used) ==
    LET n == response.adapter_name
        count == IF n \in DOMAIN metrics.adapter_usage
                 THEN metrics.adapter_usage[n] ELSE 0
    IN [metrics EXCEPT
            !.successful_requests = @ + 1,
            !.adapter_usage = [m \in DOMAIN @ \cup {n} |->
                                  IF m = n THEN count + 1 ELSE @[m]],
            !.total_cost_usd = @ + response.cost_usd,
            !.fallback_triggers = IF used THEN @ + 1 ELSE @]

\* mutant: an adapter that was skipped is not listed
note_unavailable_dropped(failed_adapters, name) == failed_adapters

\* an unavailable adapter is listed with the failed ones
note_unavailable(failed_adapters, name) == Append(failed_adapters, name)

skip_adapter_counts_failure(a, t) == record_failure(a, t)

\* an adapter that is not available is passed over as it is
skip_adapter(a, t) == a

failure_reason_dropped(out) == ""

\* the reason kept for a failed attempt: the message of the exception the
\* call raised, or the error of the response
failure_reason(out) == out.error

\* the loop of LLMFallbackChain.execute from position i on
RECURSIVE chain_attempts(_, _, _, _, _, _, _)
chain_attempts(i, names, ads, failed_adapters, errors, executed, t) ==
    IF i > Len(names)
    THEN [raised |-> TRUE, adapters |-> ads, failed_adapters |-> failed_adapters,
          errors |-> errors, executed |-> executed, response |-> None]
    ELSE LET n == names[i]
         IN IF ~mock_check_availability(ads[n])
            THEN chain_attempts(i + 1, names,
                                [ads EXCEPT ![n] = skip_adapter(ads[n], t)],
                                note_unavailable(failed_adapters, n),
                                Append(errors, <<n, "unavailable">>), executed, t)
            ELSE LET out == mock_execute(ads[n], t)
                     after == [ads EXCEPT ![n] = out.adapter]
                     ran == Append(executed, n)
                 IN IF ~out.raised /\ is_success(out.response)
                    THEN [raised |-> FALSE, adapters |-> after,
                          failed_adapters |-> failed_adapters,
                          errors |-> errors,
                          executed |-> ran,
                          response |-> Some([out.response EXCEPT
                              !.metadata.fallback_attempts =
                                  Some(Len(failed_adapters))])]
                    ELSE chain_attempts(i + 1, names, after,
                                        Append(failed_adapters, n),
                                        Append(errors, <<n, failure_reason(out)>>),
                                        ran, t)

SeqRange(q) == {q[i] : i \in DOMAIN q}

\* what the providers behind the adapters do during one request: the last
\* adapter of a chain of three always answers
Conducts(names) ==
    {f \in [SeqRange(names) -> Behaviours \X BOOLEAN] :
        Len(names) = 3 => f[names[3]] = <<"success", TRUE>>}

Conducted(ads, f) ==
    [n \in DOMAIN ads |-> [ads[n] EXCEPT !.behaviour = f[n][1],
                                         !.is_available = f[n][2]]]

\* LLMFallbackChain.execute
chain_execute(f) ==
    LET ads == Conducted(adapters, f)
        out == chain_attempts(1, chain.adapters, ads, <<>>, <<>>, <<>>, now)
        counted == [chain.metrics EXCEPT !.total_requests = @ + 1]
    IN /\ chain.metrics.total_requests < MaxRequests
       /\ adapters' = out.adapters
       /\ chain' = [chain EXCEPT !.metrics =
                       IF out.raised
                       THEN [counted EXCEPT !.failed_requests = @ + 1]
                       ELSE update_metrics(counted, Val(out.response),
                                           fallback_used(out.failed_adapters))]
       /\ result' = [op |-> "chain_execute",
                     raised |-> out.raised,
                     failed_adapters |-> out.failed_adapters,
                     errors |-> out.errors,
                     executed |-> out.executed,
                     response |-> out.response,
                     adapters_before |-> ads,
                     metrics_before |-> chain.metrics]
       /\ UNCHANGED <<now, collector, enforcerFields, world, threads>>

ChainExecute == \E f \in Conducts(chain.adapters) : chain_execute(f)

\* chains of distinct adapters
Chains ==
    {<<"Primary">>, <<"Primary", "Secondary">>,
     <<"Primary", "Secondary", "Tertiary">>}

InitChain ==
    /\ now = 0
    /\ IdleEnforcer
    /\ result = NoResult
    /\ \E names \in Chains :
          /\ chain = [adapters |-> names, metrics |-> ChainMetrics]
          /\ adapters = [n \in SeqRange(names) |-> MockAdapter(n, "success", TRUE)]
    /\ world = <<>>
    /\ threads = <<>>
    /\ collector = <<>>

NextChain ==
    \/ ChainExecute

SpecChain == InitChain /\ [][NextChain]_vars

IsChainExecute == result.op = "chain_execute"

\* what the adapter at position i was when the request started
ChainAdapterBefore(i) == result.adapters_before[chain.adapters[i]]

CanSucceed(i) ==
    /\ ChainAdapterBefore(i).is_available
    /\ ChainAdapterBefore(i).behaviour = "success"

\* the first position whose adapter is available and answers with success
\* (0 if there is none)
FirstSuccess ==
    IF \E i \in DOMAIN chain.adapters : CanSucceed(i)
    THEN CHOOSE i \in DOMAIN chain.adapters :
            CanSucceed(i) /\ \A j \in 1..(i - 1) : ~CanSucceed(j)
    ELSE 0

\* how often execute of the adapter at position i was called by the request
CallsOf(i) ==
    adapters[chain.adapters[i]].call_count - ChainAdapterBefore(i).call_count

\* positions are strictly increasing along a sequence of adapter names
RECURSIVE PositionOf(_, _)
PositionOf(name, i) ==
    IF i > Len(chain.adapters) THEN 0
    ELSE IF chain.adapters[i] = name THEN i
    ELSE PositionOf(name, i + 1)

InChainOrder(q) ==
    \A k \in 1..(Len(q) - 1) : PositionOf(q[k], 1) < PositionOf(q[k + 1], 1)

\* C4: the chain executes the adapters in chain order, each at most once,
\* and returns the response of the first adapter that returns success; no
\* adapter after that one is executed.
C4_FirstSuccessInOrder ==
    IsChainExecute =>
        /\ InChainOrder(result.executed)
        /\ \A i \in DOMAIN chain.adapters :
              /\ CallsOf(i) \in {0, 1}
              /\ CallsOf(i) = 1 <=> \E k \in DOMAIN result.executed :
                                        result.executed[k] = chain.adapters[i]
              /\ (FirstSuccess # 0 /\ i > FirstSuccess) => CallsOf(i) = 0
              /\ (FirstSuccess = 0 \/ i <= FirstSuccess) =>
                    (CallsOf(i) = 1 <=> ChainAdapterBefore(i).is_available)
        /\ FirstSuccess # 0 =>
              /\ ~result.raised
              /\ Val(result.response).status = "success"
              /\ Val(result.response).adapter_name = chain.adapters[FirstSuccess]

\* C4 witness: the second of three adapters answered after the first had
\* failed; the third, which would have answered too, was not executed
C4_Witness ==
    /\ IsChainExecute
    /\ Len(chain.adapters) = 3
    /\ FirstSuccess = 2
    /\ CanSucceed(3)
    /\ CallsOf(1) = 1
    /\ CallsOf(2) = 1
    /\ CallsOf(3) = 0
    /\ ~result.raised

\* C5: AllAdaptersFailedError is raised if and only if no adapter produced a
\* success; it lists every adapter of the chain in chain order, and the
\* request counts as one failed request, successful_requests unchanged.
C5_AllAdaptersFailed ==
    IsChainExecute =>
        /\ result.raised <=> FirstSuccess = 0
        /\ result.raised =>
              /\ result.failed_adapters = chain.adapters
              /\ chain.metrics.failed_requests =
                    result.metrics_before.failed_requests + 1
              /\ chain.metrics.successful_requests =
                    result.metrics_before.successful_requests
              /\ chain.metrics.total_requests =
                    result.metrics_before.total_requests + 1
        /\ ~result.raised =>
              chain.metrics.failed_requests = result.metrics_before.failed_requests

\* C5 witness: the second request of a chain of two raises: one adapter was
\* unavailable and the other failed
C5_Witness ==
    /\ IsChainExecute
    /\ result.raised
    /\ Len(chain.adapters) = 2
    /\ result.metrics_before.total_requests = 1
    /\ ~ChainAdapterBefore(1).is_available
    /\ ChainAdapterBefore(2).is_available
    /\ ChainAdapterBefore(2).behaviour \in {"error", "raise"}
    /\ result.failed_adapters = <<"Primary", "Secondary">>

MaxExecutes == 5
MaxElapsed == 450
DEFAULT_CIRCUIT_BREAKER_THRESHOLD == 5
DEFAULT_CIRCUIT_BREAKER_COOLDOWN == 300
FREE_TIER_DAILY_LIMIT == 1500
WaitSteps == {150}
Outcomes == {"success", "rate_limited", "error"}
ResourceOutcomes == {"success", "error"}
AzureModels == {"gpt-4o", "gpt-4-turbo"}

AzureResource(name, models, priority) ==
    [name |-> name, models |-> models, priority |-> priority]

\* _get_default_resources
DefaultResources ==
    <<AzureResource("nrcharlotte", <<"o3-mini", "gpt-4o">>, 1),
      AzureResource("wilbur-resource",
                    <<"gpt-4.1", "gpt-4o", "gpt-4o-mini-transcribe">>, 2),
      AzureResource("oai-netrunmax-prod-eastus",
                    <<"gpt-4-turbo", "text-embedding-ada-002">>, 3)>>

\* resources handed to the constructor, listed against their priority
CustomResources ==
    <<AzureResource("secondary", <<"gpt-4-turbo">>, 2),
      AzureResource("primary", <<"gpt-4o">>, 1)>>

ResourceNames(resources) == {resources[i].name : i \in DOMAIN resources}

\* sorted(self.resources, key=lambda r: r.priority): stable insertion
RECURSIVE InsertByPriority(_, _)
InsertByPriority(sorted, r) ==
    IF sorted = <<>> THEN <<r>>
    ELSE IF Head(sorted).priority <= r.priority
    THEN <<Head(sorted)>> \o InsertByPriority(Tail(sorted), r)
    ELSE <<r>> \o sorted

RECURSIVE SortedByPriority(_)
SortedByPriority(resources) ==
    IF resources = <<>> THEN <<>>
    ELSE InsertByPriority(SortedByPriority(SubSeq(resources, 1, Len(resources) - 1)),
                          resources[Len(resources)])

\* the element of q at the least of the positions ok, as an Optional
FirstOf(q, ok) ==
    IF ok = {} THEN None
    ELSE Some(q[CHOOSE i \in ok : \A j \in ok : i <= j])

\* _get_resource_for_model
get_resource_for_model(a, model) ==
    LET q == SortedByPriority(a.resources)
    IN FirstOf(q, {i \in DOMAIN q : model \in SeqRange(q[i].models)})

\* _select_fallback_resource
select_fallback_resource(a, failed_resources) ==
    LET q == SortedByPriority(a.resources)
    IN FirstOf(q, {i \in DOMAIN q : q[i].name \notin SeqRange(failed_resources)})

AzureOpenAIAdapter(resources, clients, enabled) ==
    BaseLLMAdapter("AzureOpenAI-gpt-4o", enabled,
                   DEFAULT_CIRCUIT_BREAKER_THRESHOLD,
                   DEFAULT_CIRCUIT_BREAKER_COOLDOWN)
    @@ [preferred_model |-> "gpt-4o",
        resources |-> resources,
        clients |-> clients,
        resource_success_count |-> [n \in clients |-> 0],
        resource_failure_count |-> [n \in clients |-> 0]]

\* _execute_with_resource: the adapter afterwards, the status of the
\* response, and whether the resource was contacted
execute_with_resource(a, resource, outcome) ==
    IF resource.name \notin a.clients
    THEN [adapter |-> a, status |-> "error", contacted |-> FALSE]
    ELSE IF outcome = "success"
    THEN [adapter |-> [a EXCEPT !.resource_success_count[resource.name] = @ + 1],
          status |-> "success", contacted |-> TRUE]
    ELSE [adapter |-> [a EXCEPT !.resource_failure_count[resource.name] = @ + 1],
          status |-> outcome, contacted |-> TRUE]

\* the failover loop of execute: attempt counts from 1 and stays below
\* max_attempts = 3
RECURSIVE azure_failover(_, _, _, _, _, _)
azure_failover(a, failed_resources, contacted, attempt, f, t) ==
    LET fallback == select_fallback_resource(a, failed_resources)
    IN IF attempt >= 3 \/ IsNone(fallback)
       THEN [adapter |-> record_failure(a, t), status |-> "error",
             contacted |-> contacted]
       ELSE LET r == Val(fallback)
                out == execute_with_resource(a, r, f[r.name])
                seen == IF out.contacted THEN Append(contacted, r.name)
                        ELSE contacted
            IN IF out.status = "success"
               THEN [adapter |-> record_success(out.adapter),
                     status |-> "success", contacted |-> seen]
               ELSE azure_failover(out.adapter, Append(failed_resources, r.name),
                                   seen, attempt + 1, f, t)

\* execute once breaker and enabled flag have let the request through
azure_attempts(a, model, f, t) ==
    LET primary == get_resource_for_model(a, model)
    IN IF IsNone(primary)
       THEN azure_failover(a, <<>>, <<>>, 1, f, t)
       ELSE LET r == Val(primary)
                out == execute_with_resource(a, r, f[r.name])
                seen == IF out.contacted THEN <<r.name>> ELSE <<>>
            IN IF out.status = "success"
               THEN [adapter |-> record_success(out.adapter),
                     status |-> "success", contacted |-> seen]
               ELSE azure_failover(out.adapter, <<r.name>>, seen, 1, f, t)

\* mutant: execute does not consult the circuit breaker
azure_execute_unguarded(a, model, f, t) ==
    IF ~a.enabled
    THEN [adapter |-> a, status |-> "error", contacted |-> <<>>]
    ELSE azure_attempts(a, model, f, t)

\* AzureOpenAIAdapter.execute
azure_execute(a, model, f, t) ==
    LET checked == check_circuit_breaker(a, t)
    IN IF checked.is_open
       THEN [adapter |-> checked.adapter, status |-> "error", contacted |-> <<>>]
       ELSE IF ~checked.adapter.enabled
       THEN [adapter |-> checked.adapter, status |-> "error", contacted |-> <<>>]
       ELSE azure_attempts(checked.adapter, model, f, t)

ExecuteCall(n, out) ==
    [op |-> "execute", adapter |-> n, at |-> now, before |-> adapters[n],
     status |-> out.status, contacted |-> out.contacted,
     api_calls_before |-> world.api_calls]

AzureExecute(n) ==
    /\ n \in DOMAIN adapters
    /\ \/ adapters[n].success_count + adapters[n].failure_count < MaxExecutes
       \/ adapters[n].circuit_breaker_open
    /\ \E model \in AzureModels,
          f \in [ResourceNames(adapters[n].resources) -> ResourceOutcomes] :
          LET out == azure_execute(adapters[n], model, f, now)
          IN /\ adapters' = [adapters EXCEPT ![n] = out.adapter]
             /\ world' = [world EXCEPT !.api_calls = @ + Len(out.contacted)]
             /\ result' = ExecuteCall(n, out)
    /\ UNCHANGED <<now, collector, enforcerFields, chain, threads>>

\* GeminiAdapter.__init__ with an API key
GeminiAdapter(use_free_tier, quota_data) ==
    BaseLLMAdapter("Gemini-API", TRUE,
                   DEFAULT_CIRCUIT_BREAKER_THRESHOLD,
                   DEFAULT_CIRCUIT_BREAKER_COOLDOWN)
    @@ [use_free_tier |-> use_free_tier,
        quota_data |-> quota_data]

QuotaData(date, requests_today) ==
    [date |-> date, requests_today |-> requests_today]

\* _load_quota_data: a missing file or a file of another day starts at zero
load_quota_data(quota_file, t) ==
    IF IsNone(quota_file) THEN QuotaData(DateOf(t), 0)
    ELSE IF Val(quota_file).date # DateOf(t) THEN QuotaData(DateOf(t), 0)
    ELSE Val(quota_file)

\* a quota check that still lets a request through at the daily limit
check_quota_through_limit(a, quota_file, t) ==
    IF ~a.use_free_tier
    THEN [quota_data |-> a.quota_data, allowed |-> TRUE]
    ELSE LET loaded == load_quota_data(quota_file, t)
         IN [quota_data |-> loaded,
             allowed |-> loaded.requests_today <= FREE_TIER_DAILY_LIMIT]

\* _check_quota: the quota data afterwards and the answer
check_quota(a, quota_file, t) ==
    IF ~a.use_free_tier
    THEN [quota_data |-> a.quota_data, allowed |-> TRUE]
    ELSE LET loaded == load_quota_data(quota_file, t)
         IN [quota_data |-> loaded,
             allowed |-> loaded.requests_today < FREE_TIER_DAILY_LIMIT]

\* _increment_quota: the quota data afterwards and what the file then holds
increment_quota(a, quota_file) ==
    IF ~a.use_free_tier
    THEN [quota_data |-> a.quota_data, quota_file |-> quota_file]
    ELSE LET counted == [a.quota_data EXCEPT !.requests_today = @ + 1]
         IN [quota_data |-> counted, quota_file |-> Some(counted)]

\* execute once the breaker has let the request through
gemini_attempt(a, quota_file, outcome, t) ==
    LET quota == check_quota(a, quota_file, t)
        loaded == [a EXCEPT !.quota_data = quota.quota_data]
    IN IF ~quota.allowed
       THEN [adapter |-> loaded, status |-> "rate_limited",
             contacted |-> <<>>, quota_file |-> quota_file]
       ELSE IF outcome = "success"
       THEN LET counted == increment_quota(loaded, quota_file)
            IN [adapter |-> record_success(
                               [loaded EXCEPT !.quota_data = counted.quota_data]),
                status |-> "success", contacted |-> <<"generate_content">>,
                quota_file |-> counted.quota_file]
       ELSE [adapter |-> record_failure(loaded, t), status |-> outcome,
             contacted |-> <<"generate_content">>, quota_file |-> quota_file]

\* GeminiAdapter.execute
gemini_execute(a, quota_file, outcome, t) ==
    LET checked == check_circuit_breaker(a, t)
    IN IF checked.is_open
       THEN [adapter |-> checked.adapter, status |-> "error",
             contacted |-> <<>>, quota_file |-> quota_file]
       ELSE gemini_attempt(checked.adapter, quota_file, outcome, t)

GeminiExecute(n) ==
    /\ n \in DOMAIN adapters
    /\ \/ adapters[n].success_count + adapters[n].failure_count < MaxExecutes
       \/ adapters[n].circuit_breaker_open
    /\ \E outcome \in Outcomes :
          LET out == gemini_execute(adapters[n], world.quota_file, outcome, now)
          IN /\ adapters' = [adapters EXCEPT ![n] = out.adapter]
             /\ world' = [world EXCEPT !.api_calls = @ + Len(out.contacted),
                                       !.quota_file = out.quota_file]
             /\ result' = ExecuteCall(n, out)
    /\ UNCHANGED <<now, collector, enforcerFields, chain, threads>>

\* time passes between requests
Wait ==
    \E d \in WaitSteps :
        /\ now + d <= MaxElapsed
        /\ now' = now + d
        /\ UNCHANGED <<enforcerVars, otherVars>>

\* one adapter at a time: an Azure adapter over its resources, with every
\* client or with one client missing, or a Gemini adapter with a quota file
InitProviders ==
    /\ now = 0
    /\ IdleEnforcer
    /\ result = NoResult
    /\ chain = <<>>
    /\ threads = <<>>
    /\ collector = <<>>
    /\ \/ /\ \E resources \in {DefaultResources, CustomResources},
                enabled \in BOOLEAN :
                \E clients \in {ResourceNames(resources),
                                ResourceNames(resources) \ {resources[1].name}} :
                    adapters = [n \in {"AzureOpenAI-gpt-4o"} |->
                                   AzureOpenAIAdapter(resources, clients, enabled)]
          /\ world = [api_calls |-> 0, quota_file |-> None]
       \/ /\ \E use_free_tier \in BOOLEAN :
                adapters = [n \in {"Gemini-API"} |->
                               GeminiAdapter(use_free_tier, QuotaData(0, 0))]
          /\ world \in {[api_calls |-> 0, quota_file |-> file] :
                           file \in {None,
                                     Some(QuotaData(0, FREE_TIER_DAILY_LIMIT - 1))}}

NextProviders ==
    \/ AzureExecute("AzureOpenAI-gpt-4o")
    \/ GeminiExecute("Gemini-API")
    \/ Wait

SpecProviders == InitProviders /\ [][NextProviders]_vars

\* the last call was an execute that found the breaker open with its
\* cooldown still running
ExecutedWhileOpen ==
    /\ result.op = "execute"
    /\ result.before.circuit_breaker_open
    /\ result.at - Val(result.before.circuit_breaker_open_time)
          < result.before.circuit_breaker_cooldown

\* C9: while the breaker of an adapter is open and its cooldown has not
\* elapsed, execute returns a response that is not a success and sends no
\* request to the provider: the Azure adapter contacts none of its
\* resources, the Gemini adapter makes no API call.
C9_OpenBreakerBlocksExecute ==
    ExecutedWhileOpen =>
        /\ result.status # "success"
        /\ result.contacted = <<>>
        /\ world.api_calls = result.api_calls_before
        /\ adapters[result.adapter].circuit_breaker_open

\* C9 witness: an Azure execute found the breaker open, half of the
\* cooldown gone, after resources had been contacted by earlier requests
C9_Witness ==
    /\ ExecutedWhileOpen
    /\ result.adapter = "AzureOpenAI-gpt-4o"
    /\ result.at > Val(result.before.circuit_breaker_open_time)
    /\ result.before.enabled
    /\ world.api_calls >= DEFAULT_CIRCUIT_BREAKER_THRESHOLD

\* ------------------------------------------------------------------------
\* validate_request called from two threads: _check_rate_limits step by step
\* ------------------------------------------------------------------------
Callers == {"t1", "t2"}

IdleCaller == [pc |-> "idle", outcome |-> "none"]

\* the rate limits of the concurrent callers: one provider, every other rule
\* passes
ConcurrentPolicies ==
    {TenantWith(100000000, None, FALSE,
                [p \in {"anthropic"} |->
                    [DefaultProviderPolicy EXCEPT !.rate_limit_rpm = rpm,
                                                  !.rate_limit_tpm = tpm]]) :
        rpm \in {1, 2}, tpm \in {0, 3000}}

\* validate_request up to the call of _check_rate_limits: the provider rules
\* and the budgets
VRBegin(c, provider, model, estimated_tokens, reason) ==
    LET pp == ProviderPolicyOf(policy, provider)
        estimated_cost == estimate_cost(model, estimated_tokens)
        early == ProviderRule(pp, model, estimated_tokens, estimated_cost)
        is_new_day == DateOf(now) > last_daily_reset
        daily_now == IF is_new_day THEN 0 ELSE daily_spend
        budget == BudgetRule(policy, daily_now, monthly_spend, estimated_cost)
        rule == IF early # "none" THEN early ELSE budget
    IN /\ threads[c].pc = "idle"
       /\ Len(PruneWindow(WindowOf(rate_limit_state, provider), now).requests) < MaxWindow
       /\ IF early = "none"
          THEN /\ daily_spend' = daily_now
               /\ last_daily_reset' = IF is_new_day THEN DateOf(now) ELSE last_daily_reset
          ELSE UNCHANGED <<daily_spend, last_daily_reset>>
       /\ threads' = [threads EXCEPT ![c] =
                         IF rule # "none"
                         THEN [pc |-> "idle", outcome |-> ErrorOf(rule, policy)]
                         ELSE [pc |-> "clean", outcome |-> "none",
                               provider |-> provider,
                               estimated_tokens |-> estimated_tokens,
                               reason |-> reason]]
       /\ UNCHANGED <<now, collector, policy, usage_records, monthly_spend, rate_limit_state,
                      result, adapters, chain, world>>

\* _check_rate_limits: the state of the provider is created if missing, the
\* clock is read and the old entries are dropped
RLClean(c) ==
    LET me == threads[c]
    IN /\ me.pc = "clean"
       /\ rate_limit_state' =
             SetWindow(rate_limit_state, me.provider,
                       PruneWindow(WindowOf(rate_limit_state, me.provider), now))
       /\ threads' = [threads EXCEPT ![c] = [me EXCEPT !.pc = "check"] @@ [at |-> now]]
       /\ UNCHANGED <<now, collector, policy, usage_records, monthly_spend, daily_spend,
                      last_daily_reset, result, adapters, chain, world>>

\* _check_rate_limits: the RPM check, then the TPM check
RLCheck(c) ==
    LET me == threads[c]
        rule == RateRule(WindowOf(rate_limit_state, me.provider),
                         ProviderPolicyOf(policy, me.provider), me.estimated_tokens)
    IN /\ me.pc = "check"
       /\ threads' = [threads EXCEPT ![c] =
                         IF rule # "none"
                         THEN [pc |-> "idle", outcome |-> ErrorOf(rule, policy)]
                         ELSE [me EXCEPT !.pc = "record"]]
       /\ UNCHANGED <<now, collector, enforcerVars, adapters, chain, world>>

\* _check_rate_limits: the request is recorded; validate_request then checks
\* the reason and returns
RLRecord(c) ==
    LET me == threads[c]
        late == ReasonRule(ProviderPolicyOf(policy, me.provider), me.reason)
    IN /\ me.pc = "record"
       /\ rate_limit_state' =
             SetWindow(rate_limit_state, me.provider,
                       RecordInWindow(WindowOf(rate_limit_state, me.provider),
                                      me.at, me.estimated_tokens))
       /\ threads' = [threads EXCEPT ![c] =
                         [pc |-> "idle",
                          outcome |-> IF late # "none" THEN ErrorOf(late, policy)
                                      ELSE "admitted"]]
       /\ UNCHANGED <<now, collector, policy, usage_records, monthly_spend, daily_spend,
                      last_daily_reset, result, adapters, chain, world>>

InitConcurrent ==
    /\ now = 0
    /\ policy \in ConcurrentPolicies
    /\ usage_records = <<>>
    /\ monthly_spend = 0
    /\ daily_spend = 0
    /\ last_daily_reset = DateOf(0)
    /\ rate_limit_state = [p \in {} |-> EmptyWindow]
    /\ result = NoResult
    /\ adapters = <<>>
    /\ chain = <<>>
    /\ world = <<>>
    /\ threads = [c \in Callers |-> IdleCaller]
    /\ collector = <<>>

NextConcurrent ==
    \/ \E c \in Callers, estimated_tokens \in FewTokenEstimates :
          VRBegin(c, "anthropic", "llama3", estimated_tokens, None)
    \/ \E c \in Callers : RLClean(c)
    \/ \E c \in Callers : RLCheck(c)
    \/ \E c \in Callers : RLRecord(c)
    \/ Tick

SpecConcurrent == InitConcurrent /\ [][NextConcurrent]_vars

\* C10: the check-and-record of the rate limits is atomic for concurrent
\* callers: when the window has room for only one of two concurrent
\* validate_request calls, at most one is admitted, so the requests recorded
\* in the trailing 60 seconds never exceed the RPM limit and their tokens
\* never exceed the TPM limit.
C10_AtomicCheckAndRecord ==
    \A p \in DOMAIN rate_limit_state :
        LET pp == ProviderPolicyOf(policy, p)
        IN /\ pp.rate_limit_rpm > 0 =>
                RecentRequests(rate_limit_state[p], now) <= pp.rate_limit_rpm
           /\ pp.rate_limit_tpm > 0 =>
                RecentTokens(rate_limit_state[p].tokens, now) <= pp.rate_limit_tpm

\* ------------------------------------------------------------------------
\* LLMFallbackChain.execute / execute_async, one adapter call at a time
\* ------------------------------------------------------------------------
\* a chain that is not serving a request
NoRequest ==
    [pc |-> "idle", position |-> 0, failed_adapters |-> <<>>,
     in_flight |-> {}, successes |-> 0]

\* mutant: the loop goes on to the next adapter after a success
after_attempt_continues(req, name, succeeded) ==
    IF succeeded
    THEN [req EXCEPT !.pc = "next", !.position = @ + 1,
                     !.in_flight = @ \ {name}, !.successes = @ + 1]
    ELSE [req EXCEPT !.pc = "next", !.position = @ + 1,
                     !.in_flight = @ \ {name},
                     !.failed_adapters = Append(@, name)]

\* the loop after the awaited call of an adapter has finished: a success
\* ends the request, anything else moves on to the next adapter
after_attempt(req, name, succeeded) ==
    IF succeeded
    THEN [req EXCEPT !.pc = "idle", !.in_flight = @ \ {name},
                     !.successes = @ + 1]
    ELSE [req EXCEPT !.pc = "next", !.position = @ + 1,
                     !.in_flight = @ \ {name},
                     !.failed_adapters = Append(@, name)]

\* a request arrives: it is counted and the loop starts at the first adapter
AsyncBegin ==
    /\ threads.pc = "idle"
    /\ chain.metrics.total_requests < MaxRequests
    /\ \E f \in Conducts(chain.adapters) : adapters' = Conducted(adapters, f)
    /\ chain' = [chain EXCEPT !.metrics.total_requests = @ + 1]
    /\ threads' = [NoRequest EXCEPT !.pc = "next", !.position = 1]
    /\ UNCHANGED <<now, collector, enforcerVars, world>>

\* the adapter at the current position is unavailable and is skipped
AsyncSkip ==
    /\ threads.pc = "next"
    /\ threads.position <= Len(chain.adapters)
    /\ ~mock_check_availability(adapters[chain.adapters[threads.position]])
    /\ threads' = [threads EXCEPT
                      !.position = @ + 1,
                      !.failed_adapters =
                          note_unavailable(@, chain.adapters[threads.position])]
    /\ UNCHANGED <<now, collector, enforcerVars, adapters, chain, world>>

\* the adapter at the current position is called and awaited
AsyncCall ==
    /\ threads.pc = "next"
    /\ threads.position <= Len(chain.adapters)
    /\ mock_check_availability(adapters[chain.adapters[threads.position]])
    /\ threads' = [threads EXCEPT
                      !.pc = "awaiting",
                      !.in_flight = @ \cup {chain.adapters[threads.position]}]
    /\ UNCHANGED <<now, collector, enforcerVars, adapters, chain, world>>

\* the awaited call finishes: with a success the metrics are updated and the
\* response is returned
AsyncReturn ==
    /\ threads.pc = "awaiting"
    /\ LET n == chain.adapters[threads.position]
           out == mock_execute(adapters[n], now)
           succeeded == ~out.raised /\ is_success(out.response)
       IN /\ adapters' = [adapters EXCEPT ![n] = out.adapter]
          /\ threads' = after_attempt(threads, n, succeeded)
          /\ chain' = IF succeeded
                      THEN [chain EXCEPT !.metrics =
                               update_metrics(@, out.response,
                                   fallback_used(threads.failed_adapters))]
                      ELSE chain
    /\ UNCHANGED <<now, collector, enforcerVars, world>>

\* every adapter was tried or skipped: AllAdaptersFailedError
AsyncExhausted ==
    /\ threads.pc = "next"
    /\ threads.position > Len(chain.adapters)
    /\ chain' = [chain EXCEPT !.metrics.failed_requests = @ + 1]
    /\ threads' = [threads EXCEPT !.pc = "idle"]
    /\ UNCHANGED <<now, collector, enforcerVars, adapters, world>>

InitChainSteps ==
    /\ now = 0
    /\ IdleEnforcer
    /\ result = NoResult
    /\ \E names \in Chains :
          /\ chain = [adapters |-> names, metrics |-> ChainMetrics]
          /\ adapters = [n \in SeqRange(names) |-> MockAdapter(n, "success", TRUE)]
    /\ world = <<>>
    /\ threads = NoRequest
    /\ collector = <<>>

NextChainSteps ==
    \/ AsyncBegin
    \/ AsyncSkip
    \/ AsyncCall
    \/ AsyncReturn
    \/ AsyncExhausted

SpecChainSteps == InitChainSteps /\ [][NextChainSteps]_vars

\* C11: within one request at most one adapter call is in flight; the
\* adapter at a position is called only after every earlier adapter has
\* finished without success (or was skipped), and at most one adapter
\* performs a successful call per request.
C11_OneCallInFlight ==
    /\ Cardinality(threads.in_flight) <= 1
    /\ threads.successes <= 1
    /\ threads.pc = "awaiting" =>
          /\ threads.in_flight = {chain.adapters[threads.position]}
          /\ threads.successes = 0
          /\ threads.failed_adapters =
                SubSeq(chain.adapters, 1, threads.position - 1)
    /\ threads.pc # "awaiting" => threads.in_flight = {}
    /\ threads.successes = 1 => threads.pc = "idle"

\* C11 witness: the second adapter is being called after the call of the
\* first one has finished with a failure
C11_Witness ==
    /\ threads.pc = "awaiting"
    /\ threads.position = 2
    /\ threads.failed_adapters = <<chain.adapters[1]>>
    /\ adapters[chain.adapters[1]].is_available
    /\ adapters[chain.adapters[1]].call_count >= 1
    /\ threads.in_flight = {chain.adapters[2]}

\* ------------------------------------------------------------------------
\* The TPM limit
\* ------------------------------------------------------------------------
\* C12: with rate_limit_tpm = T > 0, a validate_request whose estimated
\* tokens added to the tokens admitted in the trailing 60 seconds would
\* exceed T raises RateLimitExceededError and is not recorded; the tokens of
\* the requests recorded in the trailing 60 seconds never exceed T.
C12_TpmWindow ==
    /\ \A p \in DOMAIN rate_limit_state :
          ProviderPolicyOf(policy, p).rate_limit_tpm > 0 =>
              RecentTokens(rate_limit_state[p].tokens, now)
                  <= ProviderPolicyOf(policy, p).rate_limit_tpm
    /\ (ReachedRateLimits /\ ResultPolicy.rate_limit_tpm > 0) =>
          LET tpm == ResultPolicy.rate_limit_tpm
              rpm == ResultPolicy.rate_limit_rpm
              sum == RecentTokens(result.window_before.tokens, result.at)
              count == RecentRequests(result.window_before, result.at)
              after == rate_limit_state[result.provider]
          IN /\ (rpm = 0 \/ count < rpm) =>
                    (result.rule = "rate_limit_tpm"
                        <=> sum + result.estimated_tokens > tpm)
             /\ result.rule = "rate_limit_tpm" =>
                    /\ result.error = "RateLimitExceededError"
                    /\ RecentTokens(after.tokens, result.at) = sum
                    /\ RecentRequests(after, result.at) = count
             /\ result.rule \in {"require_reason", "none"} =>
                    RecentTokens(after.tokens, result.at)
                        = sum + result.estimated_tokens

\* C12 witness: 2000 tokens are refused when 2000 of the 3000 are taken by
\* a request still inside the minute, with the RPM limit not reached
C12_Witness ==
    /\ ReachedRateLimits
    /\ ResultPolicy.rate_limit_tpm = 3000
    /\ result.rule = "rate_limit_tpm"
    /\ result.estimated_tokens = 2000
    /\ RecentTokens(result.window_before.tokens, result.at) = 2000
    /\ RecentRequests(result.window_before, result.at) = 1
    /\ result.at > 0

\* ------------------------------------------------------------------------
\* TelemetryCollector (netrun/llm/telemetry.py)
\* ------------------------------------------------------------------------
\* Latencies are whole milliseconds, costs micro-USD.  The id of a metrics
\* object is its identity: the serial number of its creation.

\* metrics objects created in one behaviour
MaxRecordCalls == 4

MaxHistories == {1, 2, 3}
Tenants == {"tenant-a", "tenant-b"}
RequestIds == {"req-1", "req-2"}
GeneratedIds == {"0f3a9c1e"}
BodyErrors == {"ValueError"}
Latencies == {120}

\* LLMRequestMetrics(request_id=..., tenant_id=..., provider=..., model=...)
\* with the other fields at their defaults
LLMRequestMetrics(id, request_id, tenant_id, provider, model, t) ==
    [id |-> id,
     request_id |-> request_id,
     tenant_id |-> tenant_id,
     provider |-> provider,
     model |-> model,
     input_tokens |-> 0,
     output_tokens |-> 0,
     total_tokens |-> 0,
     latency_ms |-> 0,
     cost_usd |-> 0,
     timestamp |-> t,
     success |-> TRUE,
     error_type |-> None,
     cached |-> FALSE]

\* TelemetryCollector.__init__; export_callback is whether one is given
TelemetryCollector(export_callback, max_history) ==
    [export_callback |-> export_callback,
     max_history |-> max_history,
     metrics |-> <<>>,
     by_tenant |-> [t \in {} |-> <<>>],
     lock |-> None]

\* get_model_pricing: the model itself, then the model behind each prefix,
\* then the free local providers
get_model_pricing(provider, model) ==
    LET prefixes == <<"azure-", "claude-", "gpt-">>
        found == {i \in 1..3 : (prefixes[i] \o model) \in DOMAIN MODEL_COSTS}
        first == CHOOSE i \in found : \A j \in found : i <= j
    IN IF model \in DOMAIN MODEL_COSTS THEN Some(MODEL_COSTS[model])
       ELSE IF found # {} THEN Some(MODEL_COSTS[prefixes[first] \o model])
       ELSE IF provider \in {"ollama", "local"} THEN Some(<<0, 0>>)
       ELSE None

\* TelemetryCollector._calculate_cost
calculate_cost(provider, model, input_tokens, output_tokens) ==
    LET pricing == get_model_pricing(provider, model)
    IN IF IsNone(pricing) THEN 0
       ELSE ((input_tokens * Val(pricing)[1])
                + (output_tokens * Val(pricing)[2])) \div 1000

\* record, before the lock: the cost of metrics that carry none
with_cost(m) ==
    IF m.cost_usd = 0 /\ m.total_tokens > 0
    THEN [m EXCEPT !.cost_usd = calculate_cost(m.provider, m.model,
                                               m.input_tokens, m.output_tokens)]
    ELSE m

\* self._by_tenant[t]: a defaultdict(list)
TenantList(c, t) == IF t \in DOMAIN c.by_tenant THEN c.by_tenant[t] ELSE <<>>

SetTenantList(c, t, list) ==
    [c EXCEPT !.by_tenant =
        [u \in (DOMAIN c.by_tenant) \cup {t} |->
            IF u = t THEN list ELSE c.by_tenant[u]]]

\* self._metrics.append(metrics)
append_metrics(c, m) == [c EXCEPT !.metrics = Append(@, m)]

\* self._by_tenant[metrics.tenant_id].append(metrics)
append_by_tenant(c, m) ==
    SetTenantList(c, m.tenant_id, Append(TenantList(c, m.tenant_id), m))

trim_history_keeps_index(c) ==
    IF Len(c.metrics) > c.max_history
    THEN [c EXCEPT !.metrics = Tail(@)]
    ELSE c

trim_history_newest(c) ==
    IF Len(c.metrics) > c.max_history
    THEN LET removed == c.metrics[Len(c.metrics)]
             tenant_list == TenantList(c, removed.tenant_id)
         IN SetTenantList([c EXCEPT !.metrics = SubSeq(@, 1, Len(@) - 1)],
                          removed.tenant_id,
                          SubSeq(tenant_list, 1, Len(tenant_list) - 1))
    ELSE c

\* record, "Trim history if needed": the oldest record leaves the history,
\* and leaves its tenant's list when it is the first of that list by
\* request_id
trim_history(c) ==
    IF Len(c.metrics) > c.max_history
    THEN LET removed == Head(c.metrics)
             tenant_list == TenantList(c, removed.tenant_id)
         IN SetTenantList([c EXCEPT !.metrics = Tail(@)],
                          removed.tenant_id,
                          IF tenant_list # <<>>
                                /\ Head(tenant_list).request_id = removed.request_id
                          THEN Tail(tenant_list)
                          ELSE tenant_list)
    ELSE c

\* record, the block under self._lock
store(c, m) == trim_history(append_by_tenant(append_metrics(c, m), m))

export_unguarded(c, callback_raises) ==
    [called |-> c.export_callback,
     failed |-> c.export_callback /\ callback_raises,
     propagated |-> IF c.export_callback /\ callback_raises
                    THEN Some("Exception") ELSE None]

\* record, "Export if callback configured": an Exception of the callback is
\* caught and logged
export(c, callback_raises) ==
    [called |-> c.export_callback,
     failed |-> c.export_callback /\ callback_raises,
     propagated |-> None]

\* the world after one record call: one more metrics object, one more
\* export when the callback was called
Recorded(w, exported) ==
    [w EXCEPT !.objects = @ + 1,
              !.exports = IF exported.called THEN @ + 1 ELSE @]

\* TelemetryCollector.record(metrics), called by one thread
record(m, callback_raises) ==
    LET exported == export(collector, callback_raises)
    IN /\ collector.lock = None
       /\ collector' = store(collector, with_cost(m))
       /\ world' = Recorded(world, exported)
       /\ result' = [op |-> "record",
                     metrics |-> with_cost(m),
                     body_raised |-> None,
                     callback_raised |-> exported.failed,
                     raised |-> exported.propagated]
       /\ UNCHANGED <<now, enforcerFields, adapters, chain, threads>>

\* exception classes that derive from BaseException and not from Exception
\* (asyncio.CancelledError since Python 3.8)
NotExceptions == {"CancelledError", "KeyboardInterrupt"}

\* "except Exception as exc" catches the exception of class e
caught_as_exception(e) == e \notin NotExceptions

\* TelemetryCollector.track_request: the tracker's metrics, the body (which
\* sets the tokens, may set the cost and may raise), the except clause, then
\* the finally block that records
track_request(tenant_id, request_id, generated, tokens, cost, body_raises, latency, callback_raises) ==
    LET created == LLMRequestMetrics(world.objects + 1,
                                     IF IsNone(request_id) THEN generated
                                     ELSE Val(request_id),
                                     tenant_id, "openai", "gpt-4o", now)
        handled == ~IsNone(body_raises) /\ caught_as_exception(Val(body_raises))
        body == [created EXCEPT !.input_tokens = tokens[1],
                                !.output_tokens = tokens[2],
                                !.cost_usd = IF IsNone(cost) THEN @ ELSE Val(cost),
                                !.success = ~handled,
                                !.error_type = IF handled THEN body_raises ELSE None]
        final == [body EXCEPT !.latency_ms = latency,
                              !.total_tokens = tokens[1] + tokens[2]]
        exported == export(collector, callback_raises)
    IN /\ collector.lock = None
       /\ collector' = store(collector, with_cost(final))
       /\ world' = Recorded(world, exported)
       /\ result' = [op |-> "track_request",
                     metrics |-> with_cost(final),
                     cost_set |-> cost,
                     body_raised |-> body_raises,
                     callback_raised |-> exported.failed,
                     raised |-> IF IsNone(exported.propagated) THEN body_raises
                                ELSE exported.propagated]
       /\ UNCHANGED <<now, enforcerFields, adapters, chain, threads>>

Record ==
    /\ world.objects < MaxRecordCalls
    /\ \E tenant_id \in Tenants, request_id \in RequestIds, callback_raises \in BOOLEAN :
          /\ callback_raises => collector.export_callback
          /\ record(LLMRequestMetrics(world.objects + 1, request_id, tenant_id,
                                      "openai", "gpt-4o", now),
                    callback_raises)

TrackRequest ==
    /\ world.objects < MaxRecordCalls
    /\ \E tenant_id \in Tenants, request_id \in {None, Some("req-1")},
          generated \in GeneratedIds, latency \in Latencies,
          body_raises \in {None} \cup {Some(e) : e \in BodyErrors},
          callback_raises \in BOOLEAN :
          /\ callback_raises => collector.export_callback
          /\ track_request(tenant_id, request_id, generated, <<1000, 500>>,
                           None, body_raises, latency, callback_raises)

InitTelemetry ==
    /\ IdleEnforcer
    /\ now = 0
    /\ result = NoResult
    /\ adapters = <<>>
    /\ chain = <<>>
    /\ threads = <<>>
    /\ world = [objects |-> 0, exports |-> 0]
    /\ \E export_callback \in BOOLEAN, max_history \in MaxHistories :
          collector = TelemetryCollector(export_callback, max_history)

NextTelemetry == Record \/ TrackRequest

SpecTelemetry == InitTelemetry /\ [][NextTelemetry]_vars

IsRecord == result.op \in {"record", "track_request"}

Least(a, b) == IF a <= b THEN a ELSE b

\* C13: after every record the history holds at most max_history records:
\* the most recent min(n, max_history) of the n metrics recorded, oldest
\* first, the last of them the one just recorded.
C13_BoundedHistory ==
    LET n == world.objects
        k == Least(n, collector.max_history)
    IN /\ Len(collector.metrics) <= collector.max_history
       /\ Len(collector.metrics) = k
       /\ \A i \in 1..k : collector.metrics[i].id = (n - k) + i
       /\ (IsRecord /\ k >= 1) => collector.metrics[k] = result.metrics

\* C13 witness: four records into a history of two, the third and fourth
\* are left
C13_Witness ==
    /\ collector.max_history = 2
    /\ world.objects = 4
    /\ Len(collector.metrics) = 2
    /\ collector.metrics[1].id = 3
    /\ collector.metrics[2].id = 4

\* the records of tenant t in the history, in the order of the history
OfTenant(history, t) == SelectSeq(history, LAMBDA m : m.tenant_id = t)

\* C14: for every tenant the list of the per-tenant index is the
\* subsequence of the history with that tenant_id, in the same order.
C14_TenantIndex ==
    /\ DOMAIN collector.by_tenant \subseteq Tenants
    /\ \A t \in Tenants :
          TenantList(collector, t) = OfTenant(collector.metrics, t)

\* C14 witness: evictions have emptied the list of one tenant while the
\* other tenant fills the history, and a request_id occurs twice
C14_Witness ==
    /\ world.objects > collector.max_history
    /\ collector.max_history = 2
    /\ DOMAIN collector.by_tenant = Tenants
    /\ collector.by_tenant["tenant-a"] = <<>>
    /\ Len(collector.by_tenant["tenant-b"]) = 2
    /\ collector.metrics[1].request_id = collector.metrics[2].request_id

\* C15: when the export callback raises, record raises nothing, a
\* surrounding track_request raises only what its body raised, and the
\* metrics are in the history.
C15_ExportErrorSwallowed ==
    (IsRecord /\ result.callback_raised) =>
        /\ result.raised = result.body_raised
        /\ result.op = "record" => IsNone(result.raised)
        /\ collector.metrics # <<>>
        /\ collector.metrics[Len(collector.metrics)] = result.metrics
        /\ result.metrics \in
              {TenantList(collector, result.metrics.tenant_id)[i] :
                  i \in 1..Len(TenantList(collector, result.metrics.tenant_id))}

\* C15 witness: the callback raised inside a track_request whose body
\* completed; nothing was raised and the record is the only one stored
C15_Witness ==
    /\ result.op = "track_request"
    /\ result.callback_raised
    /\ IsNone(result.body_raised)
    /\ IsNone(result.raised)
    /\ collector.metrics = <<result.metrics>>
    /\ result.metrics.cost_usd = 7500

\* ------------------------------------------------------------------------
\* TelemetryCollector.record called by several threads
\* ------------------------------------------------------------------------
\* Each caller runs record statement by statement; the statements of the
\* with self._lock block are separate steps of the thread holding the lock.

DEFAULT_MAX_HISTORY == 10000

IdleProducer == [pc |-> "idle", metrics |-> None]

lock_free_always(c) == TRUE

\* with self._lock: the lock is taken when no thread holds it
lock_free(c) == IsNone(c.lock)

release_not_before_export(c) == c

\* the end of the with self._lock block
release(c) == [c EXCEPT !.lock = None]

\* the thread's position and the metrics it is recording
Producer(c, pc) == [threads EXCEPT ![c].pc = pc]

\* record is called: the cost is computed before the lock is asked for
ProducerBegin(c) ==
    /\ threads[c].pc = "idle"
    /\ world.objects < MaxRecordCalls
    /\ \E tenant_id \in Tenants, request_id \in GeneratedIds :
          threads' = [threads EXCEPT ![c] =
              [pc |-> "acquire",
               metrics |-> Some(with_cost(LLMRequestMetrics(
                               world.objects + 1, request_id, tenant_id,
                               "openai", "gpt-4o", now)))]]
    /\ world' = [world EXCEPT !.objects = @ + 1]
    /\ UNCHANGED <<now, enforcerVars, adapters, chain, collector>>

\* with self._lock, entered
ProducerAcquire(c) ==
    /\ threads[c].pc = "acquire"
    /\ lock_free(collector)
    /\ collector' = [collector EXCEPT !.lock = Some(c)]
    /\ threads' = Producer(c, "append_metrics")
    /\ UNCHANGED <<now, enforcerVars, adapters, chain, world>>

ProducerAppendMetrics(c) ==
    /\ threads[c].pc = "append_metrics"
    /\ collector' = append_metrics(collector, Val(threads[c].metrics))
    /\ threads' = Producer(c, "append_by_tenant")
    /\ UNCHANGED <<now, enforcerVars, adapters, chain, world>>

ProducerAppendByTenant(c) ==
    /\ threads[c].pc = "append_by_tenant"
    /\ collector' = append_by_tenant(collector, Val(threads[c].metrics))
    /\ threads' = Producer(c, "trim")
    /\ UNCHANGED <<now, enforcerVars, adapters, chain, world>>

\* the trim, and the end of the with block: the lock is released
ProducerTrim(c) ==
    /\ threads[c].pc = "trim"
    /\ collector' = release(trim_history(collector))
    /\ threads' = Producer(c, "export")
    /\ UNCHANGED <<now, enforcerVars, adapters, chain, world>>

\* the export callback, outside the lock, and the return of record
ProducerExport(c) ==
    /\ threads[c].pc = "export"
    /\ \E callback_raises \in BOOLEAN :
          LET exported == export(collector, callback_raises)
          IN /\ callback_raises => collector.export_callback
             /\ IsNone(exported.propagated)
             /\ world' = [world EXCEPT
                    !.exports = IF exported.called THEN @ + 1 ELSE @,
                    !.completed = @ \cup {Val(threads[c].metrics).id}]
    /\ threads' = [threads EXCEPT ![c] = IdleProducer]
    /\ UNCHANGED <<now, enforcerVars, adapters, chain, collector>>

InitProducers ==
    /\ IdleEnforcer
    /\ now = 0
    /\ result = NoResult
    /\ adapters = <<>>
    /\ chain = <<>>
    /\ threads = [c \in Callers |-> IdleProducer]
    /\ world = [objects |-> 0, exports |-> 0, completed |-> {}]
    /\ \E export_callback \in BOOLEAN, max_history \in {2, DEFAULT_MAX_HISTORY} :
          collector = TelemetryCollector(export_callback, max_history)

NextProducers ==
    \E c \in Callers :
        \/ ProducerBegin(c)
        \/ ProducerAcquire(c)
        \/ ProducerAppendMetrics(c)
        \/ ProducerAppendByTenant(c)
        \/ ProducerTrim(c)
        \/ ProducerExport(c)

SpecProducers == InitProducers /\ [][NextProducers]_vars

\* the positions of record inside the with self._lock block
InLock == {"append_metrics", "append_by_tenant", "trim"}

\* the ids of the records of a list
IdsOf(list) == {list[i].id : i \in 1..Len(list)}

\* the threads that have appended to the history and not yet returned
Appended == {c \in Callers : threads[c].pc \in {"append_by_tenant", "trim", "export"}}

\* C16: a thread is inside the locked block of record only while it holds
\* the lock, so at most one is; and while fewer records than max_history
\* have been submitted the history holds every record once: its length is
\* the number of completed calls plus the calls that have appended and not
\* yet returned, and with no call in progress it is the number of completed
\* calls, the per-tenant index agreeing with it.
C16_ConcurrentRecord ==
    /\ \A c \in Callers :
          threads[c].pc \in InLock <=> collector.lock = Some(c)
    /\ Cardinality({c \in Callers : threads[c].pc \in InLock}) <= 1
    /\ world.objects < collector.max_history =>
          /\ Cardinality(IdsOf(collector.metrics)) = Len(collector.metrics)
          /\ world.completed \subseteq IdsOf(collector.metrics)
          /\ Len(collector.metrics)
                = Cardinality(world.completed) + Cardinality(Appended)
          /\ (\A c \in Callers : threads[c].pc = "idle") =>
                /\ Len(collector.metrics) = Cardinality(world.completed)
                /\ IdsOf(collector.metrics) = 1..world.objects
                /\ \A t \in Tenants :
                      TenantList(collector, t) = OfTenant(collector.metrics, t)

\* C16 witness: two calls have returned, a third holds the lock and has
\* appended to the history, and the fourth waits for the lock
C16_Witness ==
    /\ collector.max_history = DEFAULT_MAX_HISTORY
    /\ threads["t1"].pc = "acquire"
    /\ threads["t2"].pc = "append_by_tenant"
    /\ collector.lock = Some("t2")
    /\ Cardinality(world.completed) = 2
    /\ Len(collector.metrics) = 3

\* ------------------------------------------------------------------------
\* PolicyEnforcer.get_usage_report, and the spend counters over time
\* ------------------------------------------------------------------------
\* A quotient the code computes in floating point is kept as the pair
\* <<numerator, denominator>>.

ReportDays == {0, 1}

RECURSIVE SumFn(_)
\* the sum of the values of a function (of a sequence, of a dict)
SumFn(f) ==
    IF DOMAIN f = {} THEN 0
    ELSE LET x == CHOOSE x \in DOMAIN f : TRUE
         IN f[x] + SumFn([y \in (DOMAIN f) \ {x} |-> f[y]])

\* d[k] = v on a dict
Put(d, k, v) == [x \in (DOMAIN d) \cup {k} |-> IF x = k THEN v ELSE d[x]]

RECURSIVE aggregate_models_once(_, _, _)
aggregate_models_once(records, by_provider, by_model) ==
    IF records = <<>> THEN [by_provider |-> by_provider, by_model |-> by_model]
    ELSE LET usage == Head(records)
             fresh == [requests |-> 0, cost_usd |-> 0, tokens |-> 0]
             counted(stats) == [stats EXCEPT !.requests = @ + 1,
                                             !.cost_usd = @ + usage.cost_usd,
                                             !.tokens = @ + usage.tokens_total]
             of_provider == IF usage.provider \in DOMAIN by_provider
                            THEN by_provider[usage.provider] ELSE fresh
         IN aggregate_models_once(Tail(records),
                      Put(by_provider, usage.provider, counted(of_provider)),
                      Put(by_model, usage.model, counted(fresh)))

RECURSIVE aggregate(_, _, _)
\* get_usage_report, "for record in recent_records": the entry of the
\* record's provider and of its model is created if missing and counts the
\* record
aggregate(records, by_provider, by_model) ==
    IF records = <<>> THEN [by_provider |-> by_provider, by_model |-> by_model]
    ELSE LET usage == Head(records)
             fresh == [requests |-> 0, cost_usd |-> 0, tokens |-> 0]
             counted(stats) == [stats EXCEPT !.requests = @ + 1,
                                             !.cost_usd = @ + usage.cost_usd,
                                             !.tokens = @ + usage.tokens_total]
             of_provider == IF usage.provider \in DOMAIN by_provider
                            THEN by_provider[usage.provider] ELSE fresh
             of_model == IF usage.model \in DOMAIN by_model
                         THEN by_model[usage.model] ELSE fresh
         IN aggregate(Tail(records),
                      Put(by_provider, usage.provider, counted(of_provider)),
                      Put(by_model, usage.model, counted(of_model)))

\* get_usage_report as a function of the enforcer and the clock
usage_report(records, pol, monthly, t, days) ==
    LET cutoff == t - (days * SECONDS_PER_DAY)
        recent_records == SelectSeq(records, LAMBDA r : r.timestamp >= cutoff)
        counts == aggregate(recent_records, <<>>, <<>>)
        latencies(rs) == [i \in 1..Len(rs) |-> rs[i].latency_ms]
        successes == Len(SelectSeq(recent_records, LAMBDA r : r.success))
        model_records(model) == SelectSeq(recent_records, LAMBDA r : r.model = model)
    IN IF recent_records = <<>>
       THEN [period_days |-> days,
             total_requests |-> 0,
             total_cost_usd |-> 0,
             total_tokens |-> 0,
             by_provider |-> <<>>,
             by_model |-> <<>>]
       ELSE [period_days |-> days,
             total_requests |-> Len(recent_records),
             total_cost_usd |-> SumFn([i \in 1..Len(recent_records) |->
                                          recent_records[i].cost_usd]),
             total_tokens |-> SumFn([i \in 1..Len(recent_records) |->
                                        recent_records[i].tokens_total]),
             by_provider |->
                [p \in DOMAIN counts.by_provider |->
                    [requests |-> counts.by_provider[p].requests,
                     cost_usd |-> counts.by_provider[p].cost_usd,
                     tokens |-> counts.by_provider[p].tokens,
                     avg_latency_ms |-> <<SumFn(latencies(recent_records)),
                                          Len(recent_records)>>,
                     success_rate |-> <<successes * 100, Len(recent_records)>>]],
             by_model |->
                [mo \in DOMAIN counts.by_model |->
                    [requests |-> counts.by_model[mo].requests,
                     cost_usd |-> counts.by_model[mo].cost_usd,
                     tokens |-> counts.by_model[mo].tokens,
                     avg_latency_ms |-> <<SumFn(latencies(model_records(mo))),
                                          Len(model_records(mo))>>]],
             budget_remaining_usd |->
                IF pol.monthly_budget_usd - monthly > 0
                THEN pol.monthly_budget_usd - monthly ELSE 0,
             budget_used_pct |->
                IF pol.monthly_budget_usd > 0
                THEN <<monthly * 100, pol.monthly_budget_usd>> ELSE <<0, 1>>]

\* PolicyEnforcer.get_usage_report(days)
get_usage_report(days) ==
    /\ result' = [op |-> "get_usage_report",
                  days |-> days,
                  at |-> now,
                  report |-> usage_report(usage_records, policy, monthly_spend,
                                          now, days)]
    /\ UNCHANGED <<now, enforcerFields, otherVars>>

\* a budget of 1 USD a month, with and without a daily budget, with and
\* without usage tracking
UsagePolicies ==
    {[TenantWith(1000000, daily, FALSE,
                 [p \in {"anthropic"} |-> DefaultProviderPolicy])
        EXCEPT !.track_usage = track] :
        daily \in {None, Some(1000000)}, track \in BOOLEAN}

ValidateUsage ==
    \E estimated_tokens \in {1000, 5000} :
        validate_request("anthropic", "claude-3-opus", estimated_tokens, None)

\* the completed requests recorded: provider, model, cost, latency, success
UsageCalls == {<<"anthropic", "claude-3-opus", 950000, 1200, TRUE>>,
               <<"anthropic", "llama3", 50000, 1200, TRUE>>,
               <<"ollama", "llama3", 50000, 300, FALSE>>}

RecordUsageAny ==
    \E call \in UsageCalls :
        record_usage(call[1], call[2], 500, 300, call[3], call[4], call[5])

GetUsageReport == \E days \in ReportDays : get_usage_report(days)

InitUsage == InitEnforcer(UsagePolicies)

NextUsage ==
    \/ ValidateUsage
    \/ RecordUsageAny
    \/ GetUsageReport
    \/ ResetMonthly
    \/ NextMidnight

SpecUsage == InitUsage /\ [][NextUsage]_vars

\* C17 (as claimed): no validate_request, record_usage or get_usage_report
\* call lowers the monthly spend or the daily spend.
C17_NeverDecrease ==
    [][result'.op \in {"validate_request", "record_usage", "get_usage_report"} =>
            /\ monthly_spend' >= monthly_spend
            /\ daily_spend' >= daily_spend]_vars

\* C17 (amended): the monthly spend is lowered by reset_monthly_budget
\* only, and the daily spend only by a validate_request made on a date after
\* the last daily reset, which sets it to zero.
C17_DecreaseOnlyByReset ==
    [][/\ monthly_spend' < monthly_spend =>
            /\ result'.op = "reset_monthly_budget"
            /\ monthly_spend' = 0
       /\ daily_spend' < daily_spend =>
            /\ result'.op = "validate_request"
            /\ result'.at = now
            /\ DateOf(now) > last_daily_reset
            /\ daily_spend' = 0]_vars

\* C17 witness: a validate_request on the day after a spend of 0.95 USD has
\* found that spend and left zero
C17_Witness ==
    /\ IsValidate
    /\ result.daily_before = 950000
    /\ result.reset_before < DateOf(result.at)
    /\ daily_spend = 0
    /\ monthly_spend = 950000

\* the rules that raise before validate_request comes to the budgets
BeforeBudgets == {"enabled", "allowed_models", "denied_models",
                  "max_tokens_per_request", "max_cost_per_request",
                  "cost_tier_limit"}

\* C18: a validate_request that comes to the budget checks on a date after
\* the last daily reset sets the daily spend to zero and the date of the
\* last reset to the current date, and leaves both alone on the date of the
\* last reset; nothing else moves the date of the last reset; the monthly
\* spend goes to zero by reset_monthly_budget only.
C18_DailyReset ==
    [][/\ (result'.op = "validate_request" /\ result' # result) =>
            IF DateOf(now) > last_daily_reset /\ result'.rule \notin BeforeBudgets
            THEN /\ daily_spend' = 0
                 /\ last_daily_reset' = DateOf(now)
            ELSE /\ daily_spend' = daily_spend
                 /\ last_daily_reset' = last_daily_reset
       /\ last_daily_reset' # last_daily_reset => result'.op = "validate_request"
       /\ last_daily_reset' <= DateOf(now')
       /\ result'.op = "reset_monthly_budget" => monthly_spend' = 0
       /\ (monthly_spend' < monthly_spend) => result'.op = "reset_monthly_budget"]_vars

\* C18 witness: the date of the last reset has followed the clock to the
\* next day while the monthly spend stayed
C18_Witness ==
    /\ IsValidate
    /\ result.reset_before = 0
    /\ last_daily_reset = 1
    /\ DateOf(now) = 1
    /\ result.daily_before = 1000000
    /\ daily_spend = 0
    /\ monthly_spend = 1000000

\* C19 (as claimed): every record_usage adds the recorded cost to the
\* monthly and to the daily spend; the UsageRecord is appended when usage
\* tracking is enabled and not otherwise.
C19_RecordUsageSpend ==
    result.op = "record_usage" =>
        /\ monthly_spend = result.monthly_before + result.cost_usd
        /\ daily_spend = result.daily_before + result.cost_usd
        /\ Len(usage_records) = result.records_before
                                    + (IF policy.track_usage THEN 1 ELSE 0)

\* the positions of the records a report made at t over days covers
InWindow(t, days) ==
    {i \in 1..Len(usage_records) :
        usage_records[i].timestamp >= t - (days * SECONDS_PER_DAY)}

\* the sum of a field over the records at the positions of a set
Total(positions, field) == SumFn([i \in positions |-> usage_records[i][field]])

\* C20: the totals of a report are the number, the cost and the tokens of
\* the records in its window, and the entries per provider and per model
\* each count every such record once: the entry of a provider (a model)
\* is the number, cost and tokens of the records of that provider (model),
\* and the entries add up to the totals.
C20_ReportRoundTrip ==
    result.op = "get_usage_report" =>
        LET report == result.report
            window == InWindow(result.at, result.days)
            entry(positions) == [requests |-> Cardinality(positions),
                                 cost_usd |-> Total(positions, "cost_usd"),
                                 tokens |-> Total(positions, "tokens_total")]
            counts(stats) == [requests |-> stats.requests,
                              cost_usd |-> stats.cost_usd,
                              tokens |-> stats.tokens]
            totals == [requests |-> report.total_requests,
                       cost_usd |-> report.total_cost_usd,
                       tokens |-> report.total_tokens]
            added(by) == [f \in {"requests", "cost_usd", "tokens"} |->
                            SumFn([k \in DOMAIN by |-> by[k][f]])]
        IN /\ totals = entry(window)
           /\ DOMAIN report.by_provider = {usage_records[i].provider : i \in window}
           /\ DOMAIN report.by_model = {usage_records[i].model : i \in window}
           /\ \A p \in DOMAIN report.by_provider :
                 counts(report.by_provider[p])
                    = entry({i \in window : usage_records[i].provider = p})
           /\ \A mo \in DOMAIN report.by_model :
                 counts(report.by_model[mo])
                    = entry({i \in window : usage_records[i].model = mo})
           /\ added(report.by_provider) = totals
           /\ added(report.by_model) = totals

\* C20 witness: a report over zero days made at the moment of a record of
\* ollama counts that record alone; the record of anthropic made before is
\* outside the window
C20_Witness ==
    /\ result.op = "get_usage_report"
    /\ Len(usage_records) = 2
    /\ result.report.total_requests = 1
    /\ result.report.total_cost_usd = 50000
    /\ result.report.total_tokens = 800
    /\ DOMAIN result.report.by_provider = {"ollama"}
    /\ usage_records[1].provider = "anthropic"

\* ------------------------------------------------------------------------
\* The usage records over time
\* ------------------------------------------------------------------------
\* C21: every step of the enforcer (validate_request with or without the
\* daily reset, record_usage, get_usage_report, reset_monthly_budget) leaves
\* the records appended before in place, unchanged and in their order: the
\* list after the step starts with the list before it.
C21_AppendOnly ==
    [][/\ Len(usage_records') >= Len(usage_records)
       /\ SubSeq(usage_records', 1, Len(usage_records)) = usage_records]_vars

\* C21 witness: two records are there, the older first, after a monthly
\* reset and a daily reset that followed them
C21_Witness ==
    /\ IsValidate
    /\ Len(usage_records) = 2
    /\ usage_records[1].timestamp = 0
    /\ usage_records[2].timestamp = 0
    /\ usage_records[1].cost_usd = 950000
    /\ result.reset_before < DateOf(result.at)
    /\ daily_spend = 0
    /\ monthly_spend = 0

\* ------------------------------------------------------------------------
\* The exception classes of policies.py
\* ------------------------------------------------------------------------
ExceptionBaseFlat ==
    [c \in {"PolicyViolationError", "ProviderDisabledError", "BudgetExceededError",
            "RateLimitExceededError", "FallbackToLocalError", "LLMError"} |->
        CASE c = "PolicyViolationError" -> "LLMError"
          [] c = "LLMError" -> "Exception"
          [] OTHER -> "PolicyViolationError"]

\* class X(Base): the base of each exception class
ExceptionBase ==
    [c \in {"PolicyViolationError", "ProviderDisabledError", "BudgetExceededError",
            "RateLimitExceededError", "FallbackToLocalError", "LLMError"} |->
        CASE c = "PolicyViolationError" -> "LLMError"
          [] c = "ProviderDisabledError" -> "PolicyViolationError"
          [] c = "BudgetExceededError" -> "PolicyViolationError"
          [] c = "RateLimitExceededError" -> "PolicyViolationError"
          [] c = "FallbackToLocalError" -> "Exception"
          [] c = "LLMError" -> "Exception"]

RECURSIVE IsInstance(_, _)
\* except handled: an exception of class cls is caught when cls is handled
\* or derives from it
IsInstance(cls, handled) ==
    \/ cls = handled
    \/ /\ cls \in DOMAIN ExceptionBase
       /\ IsInstance(ExceptionBase[cls], handled)

\* C22: a handler of PolicyViolationError catches ProviderDisabledError,
\* BudgetExceededError and RateLimitExceededError and does not catch
\* FallbackToLocalError; a validate_request stopped by a budget raises
\* FallbackToLocalError when the tenant falls back to local and
\* BudgetExceededError when not, never an error of both kinds.
C22_FallbackDistinct ==
    /\ \A c \in {"ProviderDisabledError", "BudgetExceededError", "RateLimitExceededError"} :
          IsInstance(c, "PolicyViolationError")
    /\ ~IsInstance("FallbackToLocalError", "PolicyViolationError")
    /\ IsValidate =>
          /\ result.rule \in {"daily_budget", "monthly_budget"} =>
                /\ policy.fallback_to_local =>
                      /\ result.error = "FallbackToLocalError"
                      /\ ~IsInstance(result.error, "PolicyViolationError")
                /\ ~policy.fallback_to_local =>
                      /\ result.error = "BudgetExceededError"
                      /\ IsInstance(result.error, "PolicyViolationError")
                      /\ ~IsInstance(result.error, "FallbackToLocalError")
          /\ result.error = "FallbackToLocalError" =>
                /\ result.rule \in {"daily_budget", "monthly_budget"}
                /\ policy.fallback_to_local

\* C22 witness: with 0.95 USD of 1 USD spent and fallback to local enabled,
\* 2000 tokens of claude-3-opus raise FallbackToLocalError
C22_Witness ==
    /\ IsValidate
    /\ policy.fallback_to_local
    /\ result.monthly_before = 950000
    /\ result.model = "claude-3-opus"
    /\ result.estimated_tokens = 2000
    /\ result.rule = "monthly_budget"
    /\ result.error = "FallbackToLocalError"

\* ------------------------------------------------------------------------
\* The chain: adapters passed over, adapters that raise
\* ------------------------------------------------------------------------
\* the request came to position i: no adapter before it answered
Reached(i) == FirstSuccess = 0 \/ i <= FirstSuccess

\* C23: an adapter whose check_availability() is false is passed over by
\* the request: its execute is not called, and the adapter (its success and
\* failure counters, its circuit breaker) is after the request what it was
\* before.
C23_UnavailableSkipped ==
    IsChainExecute =>
        \A i \in DOMAIN chain.adapters :
            ~ChainAdapterBefore(i).is_available =>
                /\ CallsOf(i) = 0
                /\ chain.adapters[i] \notin SeqRange(result.executed)
                /\ adapters[chain.adapters[i]] = ChainAdapterBefore(i)

\* C23 witness: Primary, with a failure on its counters from an earlier
\* request, is not available; Secondary answers and Primary is as it was
C23_Witness ==
    /\ IsChainExecute
    /\ ~ChainAdapterBefore(1).is_available
    /\ ChainAdapterBefore(1).failure_count = 1
    /\ ChainAdapterBefore(1).consecutive_failures = 1
    /\ adapters["Primary"].failure_count = 1
    /\ adapters["Primary"].call_count = 1
    /\ ~result.raised
    /\ Val(result.response).adapter_name = "Secondary"
    /\ result.executed = <<"Secondary">>

\* C24: an exception raised by an adapter's execute does not leave the
\* chain: the request raises only when no adapter answered; the adapter
\* that raised was called once and is listed as failed with the message of
\* its exception, and the adapter after it is tried (called, or passed over
\* when it is not available).
C24_RaiseAbsorbed ==
    IsChainExecute =>
        /\ result.raised <=> FirstSuccess = 0
        /\ \A i \in DOMAIN chain.adapters :
              (/\ Reached(i)
               /\ ChainAdapterBefore(i).is_available
               /\ ChainAdapterBefore(i).behaviour = "raise") =>
                  /\ CallsOf(i) = 1
                  /\ chain.adapters[i] \in SeqRange(result.failed_adapters)
                  /\ <<chain.adapters[i], "Simulated execution error">>
                        \in SeqRange(result.errors)
                  /\ i < Len(chain.adapters) =>
                        IF ChainAdapterBefore(i + 1).is_available
                        THEN CallsOf(i + 1) = 1
                        ELSE /\ CallsOf(i + 1) = 0
                             /\ chain.adapters[i + 1]
                                   \in SeqRange(result.failed_adapters)

\* C24 witness: the execute of Primary raises and Secondary answers the
\* request
C24_Witness ==
    /\ IsChainExecute
    /\ Len(chain.adapters) = 2
    /\ ChainAdapterBefore(1).is_available
    /\ ChainAdapterBefore(1).behaviour = "raise"
    /\ ~result.raised
    /\ Val(result.response).adapter_name = "Secondary"
    /\ result.errors = <<<<"Primary", "Simulated execution error">>>>
    /\ result.failed_adapters = <<"Primary">>

\* ------------------------------------------------------------------------
\* BaseLLMAdapter.is_healthy
\* ------------------------------------------------------------------------
\* calls recorded on the adapter in one behaviour
MaxHealthCalls == 11

\* get_success_rate, in percent, as <<numerator, denominator>>: 100 when
\* nothing was recorded
get_success_rate(a) ==
    IF a.success_count + a.failure_count = 0 THEN <<100, 1>>
    ELSE <<a.success_count * 100, a.success_count + a.failure_count>>

is_healthy_any_sample(a) ==
    LET rate == get_success_rate(a)
    IN /\ a.enabled
       /\ ~a.circuit_breaker_open
       /\ rate[1] >= 50 * rate[2]

\* is_healthy: enabled, breaker not open, and a success rate of at least
\* 50 percent once 10 calls have been recorded
is_healthy(a) ==
    LET rate == get_success_rate(a)
        total == a.success_count + a.failure_count
    IN /\ a.enabled
       /\ ~a.circuit_breaker_open
       /\ (rate[1] >= 50 * rate[2] \/ total < 10)

\* _record_success or _record_failure after a call
HealthRecord(n) ==
    /\ adapters[n].success_count + adapters[n].failure_count < MaxHealthCalls
    /\ \E succeeded \in BOOLEAN :
          /\ adapters' = [adapters EXCEPT ![n] =
                IF succeeded THEN record_success(@) ELSE record_failure(@, now)]
          /\ result' = AdapterCall(IF succeeded THEN "record_success"
                                   ELSE "record_failure", n, FALSE)
    /\ UNCHANGED <<now, collector, enforcerFields, chain, world, threads>>

IsHealthy(n) ==
    /\ result' = [op |-> "is_healthy", adapter |-> n,
                  healthy |-> is_healthy(adapters[n])]
    /\ UNCHANGED <<now, collector, enforcerFields, adapters, chain, world, threads>>

InitHealth ==
    /\ now = 0
    /\ IdleEnforcer
    /\ result = NoResult
    /\ \E enabled \in BOOLEAN, threshold \in {3, DEFAULT_CIRCUIT_BREAKER_THRESHOLD} :
          adapters = [n \in {"TestAdapter"} |->
                         BaseLLMAdapter(n, enabled, threshold,
                                        DEFAULT_CIRCUIT_BREAKER_COOLDOWN)]
    /\ chain = <<>>
    /\ world = <<>>
    /\ threads = <<>>
    /\ collector = <<>>

NextHealth == HealthRecord("TestAdapter") \/ IsHealthy("TestAdapter")

SpecHealth == InitHealth /\ [][NextHealth]_vars

\* C25: is_healthy() is true exactly when the adapter is enabled, its
\* breaker is not open, and its successes are at least the floor (half) of
\* its calls or fewer than 10 calls have been recorded.
C25_IsHealthy ==
    result.op = "is_healthy" =>
        LET a == adapters[result.adapter]
            calls == a.success_count + a.failure_count
        IN result.healthy <=>
              /\ a.enabled
              /\ ~a.circuit_breaker_open
              /\ (2 * a.success_count >= calls \/ calls < 10)

\* C25 witness: an enabled adapter with a closed breaker, three successes
\* in ten calls, is not healthy
C25_Witness ==
    /\ result.op = "is_healthy"
    /\ adapters["TestAdapter"].enabled
    /\ ~adapters["TestAdapter"].circuit_breaker_open
    /\ adapters["TestAdapter"].success_count = 3
    /\ adapters["TestAdapter"].failure_count = 7
    /\ ~result.healthy

\* ------------------------------------------------------------------------
\* TelemetryCollector.get_stats
\* ------------------------------------------------------------------------
\* half hours that pass in one behaviour
MaxHalfHours == 2
HALF_HOUR_SECONDS == 30 * 60

\* a period string, as its characters
Periods == {<<"1", "h">>, <<"3", "0", "m">>, <<"1", "w">>}

DigitValue ==
    [c \in {"0", "1", "2", "3", "4", "5", "6", "7", "8", "9"} |->
        CASE c = "0" -> 0 [] c = "1" -> 1 [] c = "2" -> 2 [] c = "3" -> 3
          [] c = "4" -> 4 [] c = "5" -> 5 [] c = "6" -> 6 [] c = "7" -> 7
          [] c = "8" -> 8 [] c = "9" -> 9]

RECURSIVE digits_value(_)
digits_value(chars) ==
    IF chars = <<>> THEN 0
    ELSE digits_value(SubSeq(chars, 1, Len(chars) - 1)) * 10
            + DigitValue[chars[Len(chars)]]

\* _parse_period, in seconds; None is the ValueError
parse_period(period) ==
    IF period = <<>> THEN None
    ELSE LET unit == period[Len(period)]
             number == SubSeq(period, 1, Len(period) - 1)
         IN IF number = <<>> \/ \E i \in DOMAIN number : number[i] \notin DOMAIN DigitValue
            THEN None
            ELSE IF unit = "h" THEN Some(digits_value(number) * 3600)
            ELSE IF unit = "d" THEN Some(digits_value(number) * SECONDS_PER_DAY)
            ELSE IF unit = "m" THEN Some(digits_value(number) * 60)
            ELSE None

RECURSIVE insert_sorted(_, _)
insert_sorted(values, v) ==
    IF values = <<>> THEN <<v>>
    ELSE IF Head(values) <= v THEN <<Head(values)>> \o insert_sorted(Tail(values), v)
    ELSE <<v>> \o values

RECURSIVE sorted(_)
\* sorted([...]) on a list of numbers
sorted(values) ==
    IF values = <<>> THEN <<>>
    ELSE insert_sorted(sorted(Tail(values)), Head(values))

percentile_floor(values, p) ==
    IF values = <<>> THEN <<0, 1>>
    ELSE <<values[(((Len(values) - 1) * p) \div 100) + 1], 1>>

\* _percentile(values, p) on a sorted list, as <<numerator, denominator>>:
\* idx = (len - 1) * p / 100 is kept as idx_100 = idx * 100
percentile(values, p) ==
    IF values = <<>> THEN <<0, 1>>
    ELSE LET idx_100 == (Len(values) - 1) * p
             lower_idx == idx_100 \div 100
             upper_idx == Least(lower_idx + 1, Len(values) - 1)
             fraction_100 == idx_100 - (lower_idx * 100)
         IN IF idx_100 % 100 = 0 THEN <<values[lower_idx + 1], 1>>
            ELSE <<(values[lower_idx + 1] * 100)
                      + ((values[upper_idx + 1] - values[lower_idx + 1]) * fraction_100),
                   100>>

\* the defaultdict filled by "for m in metrics": one entry per key met
breakdown(metrics, keys) ==
    [k \in {keys[i] : i \in DOMAIN keys} |->
        LET of_key == {i \in DOMAIN keys : keys[i] = k}
        IN [requests |-> Cardinality(of_key),
            cost |-> SumFn([i \in of_key |-> metrics[i].cost_usd]),
            tokens |-> SumFn([i \in of_key |-> metrics[i].total_tokens])]]

CountOf(metrics, wanted) == Cardinality({i \in DOMAIN metrics : metrics[i] \in wanted})

\* AggregatedMetrics(...) as get_stats builds it from the filtered metrics
AggregatedMetrics(period_start, period_end, tenant_id, metrics) ==
    LET latencies == sorted([i \in DOMAIN metrics |-> metrics[i].latency_ms])
        range == {metrics[i] : i \in DOMAIN metrics}
        failures == SelectSeq(metrics, LAMBDA m : ~m.success /\ ~IsNone(m.error_type))
    IN [period_start |-> period_start,
        period_end |-> period_end,
        tenant_id |-> tenant_id,
        total_requests |-> Len(metrics),
        successful_requests |-> CountOf(metrics, {m \in range : m.success}),
        failed_requests |-> CountOf(metrics, {m \in range : ~m.success}),
        cached_requests |-> CountOf(metrics, {m \in range : m.cached}),
        total_input_tokens |-> SumFn([i \in DOMAIN metrics |-> metrics[i].input_tokens]),
        total_output_tokens |-> SumFn([i \in DOMAIN metrics |-> metrics[i].output_tokens]),
        total_cost_usd |-> SumFn([i \in DOMAIN metrics |-> metrics[i].cost_usd]),
        latency_p50 |-> percentile(latencies, 50),
        latency_p95 |-> percentile(latencies, 95),
        latency_p99 |-> percentile(latencies, 99),
        latency_avg |-> IF latencies = <<>> THEN <<0, 1>>
                        ELSE <<SumFn(latencies), Len(latencies)>>,
        by_provider |-> breakdown(metrics, [i \in DOMAIN metrics |-> metrics[i].provider]),
        by_model |-> breakdown(metrics, [i \in DOMAIN metrics |-> metrics[i].model]),
        errors_by_type |->
            [e \in {Val(failures[i].error_type) : i \in DOMAIN failures} |->
                Cardinality({i \in DOMAIN failures : Val(failures[i].error_type) = e})]]

stats_window_after(c, tenant_id, cutoff) ==
    LET source == IF ~IsNone(tenant_id) /\ Val(tenant_id) # ""
                  THEN TenantList(c, Val(tenant_id)) ELSE c.metrics
    IN SelectSeq(source, LAMBDA m : m.timestamp > cutoff)

\* the list get_stats filters under the lock: the tenant's list when a
\* tenant is given, the whole history otherwise
stats_window(c, tenant_id, cutoff) ==
    LET source == IF ~IsNone(tenant_id) /\ Val(tenant_id) # ""
                  THEN TenantList(c, Val(tenant_id)) ELSE c.metrics
    IN SelectSeq(source, LAMBDA m : m.timestamp >= cutoff)

\* TelemetryCollector.get_stats(period, tenant_id) at time t
get_stats(c, period, tenant_id, t) ==
    LET period_delta == parse_period(period)
    IN IF IsNone(period_delta)
       THEN [raised |-> Some("ValueError"), stats |-> None]
       ELSE [raised |-> None,
             stats |-> Some(AggregatedMetrics(t - Val(period_delta), t, tenant_id,
                               stats_window(c, tenant_id, t - Val(period_delta))))]

\* metrics = LLMRequestMetrics(..., input_tokens=..., output_tokens=...,
\* latency_ms=..., cost_usd=...) as a caller of record builds them
SubmittedMetrics(tenant_id, model, tokens, latency_ms, cost_usd, error_type) ==
    [tenant_id |-> tenant_id, provider |-> "openai", model |-> model,
     input_tokens |-> tokens[1], output_tokens |-> tokens[2],
     total_tokens |-> tokens[3], latency_ms |-> latency_ms,
     cost_usd |-> cost_usd, error_type |-> error_type]

\* the loop of test_get_stats_latency_percentiles
TestLatencies ==
    [i \in 1..10 |-> SubmittedMetrics("tenant-123", "gpt-4o", <<100, 50, 0>>,
                                      i * 100, 0, None)]

MixedLatencies ==
    <<SubmittedMetrics("tenant-123", "gpt-4o", <<1000, 500, 1500>>, 350, 0, None),
      SubmittedMetrics("tenant-b", "gpt-4o", <<0, 0, 0>>, 100, 0, Some("ValueError")),
      SubmittedMetrics("tenant-123", "gpt-4o", <<1000, 500, 1500>>, 200, 20000, None),
      SubmittedMetrics("tenant-b", "my-model", <<1000, 500, 1500>>, 120, 0, None)>>

RecordSubmitted ==
    /\ world.objects < Len(world.feed)
    /\ LET f == world.feed[world.objects + 1]
           m == LLMRequestMetrics(world.objects + 1, "req", f.tenant_id,
                                  f.provider, f.model, now)
       IN record([m EXCEPT !.input_tokens = f.input_tokens,
                           !.output_tokens = f.output_tokens,
                           !.total_tokens = f.total_tokens,
                           !.latency_ms = f.latency_ms,
                           !.cost_usd = f.cost_usd,
                           !.success = IsNone(f.error_type),
                           !.error_type = f.error_type],
                 FALSE)

GetStats ==
    /\ collector.lock = None
    /\ \E period \in Periods, tenant_id \in {None, Some("tenant-123"), Some("tenant-b")} :
          LET repeats == /\ result.op = "get_stats"
                         /\ result.period = period
                         /\ result.tenant_id = tenant_id
          IN result' = [op |-> "get_stats", period |-> period, tenant_id |-> tenant_id,
                        at |-> now, repeats |-> repeats,
                        since |-> IF repeats THEN result.at ELSE now]
                           @@ get_stats(collector, period, tenant_id, now)
    /\ UNCHANGED <<now, collector, enforcerFields, adapters, chain, world, threads>>

HalfHour ==
    /\ now < MaxHalfHours * HALF_HOUR_SECONDS
    /\ now' = now + HALF_HOUR_SECONDS
    /\ UNCHANGED <<collector, enforcerVars, adapters, chain, world, threads>>

InitStats ==
    /\ IdleEnforcer
    /\ now = 0
    /\ result = NoResult
    /\ adapters = <<>>
    /\ chain = <<>>
    /\ threads = <<>>
    /\ \E feed \in {TestLatencies, MixedLatencies} :
          world = [objects |-> 0, exports |-> 0, feed |-> feed]
    /\ \E max_history \in {3, DEFAULT_MAX_HISTORY} :
          collector = TelemetryCollector(FALSE, max_history)

NextStats == RecordSubmitted \/ GetStats \/ HalfHour

SpecStats == InitStats /\ [][NextStats]_vars

RatEq(a, b) == a[1] * b[2] = b[1] * a[2]

\* the latencies of the records the last get_stats had in its window
WindowLatencies ==
    LET cutoff == result.at - Val(parse_period(result.period))
        mine(m) == IsNone(result.tenant_id) \/ m.tenant_id = Val(result.tenant_id)
        recent == SelectSeq(collector.metrics, LAMBDA m : mine(m) /\ m.timestamp >= cutoff)
    IN sorted([i \in DOMAIN recent |-> recent[i].latency_ms])

\* percentile p of the sorted list s in the words of the claim, times 100
Interpolated(s, p) ==
    LET k == (Len(s) - 1) * p
        floor == (k \div 100) + 1
        ceil == IF k % 100 = 0 THEN floor ELSE floor + 1
    IN IF k % 100 = 0 THEN s[floor] * 100
       ELSE (s[floor] * 100) + ((s[ceil] - s[floor]) * (k % 100))

\* C26: over the n sorted latencies of the window, get_stats reports for
\* percentile p the value at index (n-1)*p/100 when that is a whole number
\* and the linear interpolation between the floor and ceil indices
\* otherwise; for the latencies 100, 200, ..., 1000 that is p50 = 550,
\* p95 = 955, p99 = 991 and an average of 550.
C26_Percentiles ==
    (result.op = "get_stats" /\ IsNone(result.raised)) =>
        LET s == WindowLatencies
            stats == Val(result.stats)
        IN /\ \A i \in 1..(Len(s) - 1) : s[i] <= s[i + 1]
           /\ Len(s) = stats.total_requests
           /\ Len(s) > 0 =>
                 /\ RatEq(stats.latency_p50, <<Interpolated(s, 50), 100>>)
                 /\ RatEq(stats.latency_p95, <<Interpolated(s, 95), 100>>)
                 /\ RatEq(stats.latency_p99, <<Interpolated(s, 99), 100>>)
           /\ s = [i \in 1..10 |-> i * 100] =>
                 /\ RatEq(stats.latency_p50, <<550, 1>>)
                 /\ RatEq(stats.latency_p95, <<955, 1>>)
                 /\ RatEq(stats.latency_p99, <<991, 1>>)
                 /\ RatEq(stats.latency_avg, <<550, 1>>)

\* C26 witness: get_stats over the ten latencies 100..1000
C26_Witness ==
    /\ result.op = "get_stats"
    /\ IsNone(result.raised)
    /\ WindowLatencies = [i \in 1..10 |-> i * 100]
    /\ Val(result.stats).latency_p95 = <<95500, 100>>

\* C27: record stores a submitted nonzero cost as given; when the submitted
\* cost is zero and the input or output token count is not, it stores
\* (input_tokens * input_rate + output_tokens * output_rate) / 1000 from the
\* pricing table, and 0 for a model without a pricing entry.
C27_CostFromTokens ==
    (result.op = "record" /\ world.objects > 0) =>
        LET submitted == world.feed[world.objects]
            stored == collector.metrics[Len(collector.metrics)]
            pricing == get_model_pricing(submitted.provider, submitted.model)
        IN /\ submitted.cost_usd # 0 => stored.cost_usd = submitted.cost_usd
           /\ (submitted.cost_usd = 0
                 /\ (submitted.input_tokens # 0 \/ submitted.output_tokens # 0)) =>
                 stored.cost_usd =
                    IF IsNone(pricing) THEN 0
                    ELSE ((submitted.input_tokens * Val(pricing)[1])
                            + (submitted.output_tokens * Val(pricing)[2])) \div 1000

\* the aggregates of an AggregatedMetrics: all but the bounds of the period
Aggregates(stats) ==
    [f \in (DOMAIN stats) \ {"period_start", "period_end"} |-> stats[f]]

\* a step that is a get_stats with the period and tenant of the get_stats
\* before it, no record in between
SecondGetStats ==
    /\ result.op = "get_stats"
    /\ result'.op = "get_stats"
    /\ result'.period = result.period
    /\ result'.tenant_id = result.tenant_id
    /\ IsNone(result.raised)

\* no record of the history left the window between the two calls
SameWindow ==
    LET period_delta == Val(parse_period(result.period))
    IN \A i \in DOMAIN collector.metrics :
          (collector.metrics[i].timestamp >= result.at - period_delta)
             <=> (collector.metrics[i].timestamp >= result'.at - period_delta)

\* C28 as stated: two get_stats with the same period and tenant and no
\* record in between return identical aggregates, and leave the history
\* and the tenant index as they were.
C28_Idempotent ==
    [][SecondGetStats =>
          /\ Aggregates(Val(result'.stats)) = Aggregates(Val(result.stats))
          /\ collector' = collector]_vars

\* C28 amended: two get_stats with the same period and tenant, no record in
\* between and no record leaving the window between the two calls, return
\* identical aggregates; a get_stats leaves the history and the tenant
\* index as they were.
C28_IdempotentSameWindow ==
    [][SecondGetStats =>
          /\ SameWindow =>
                Aggregates(Val(result'.stats)) = Aggregates(Val(result.stats))
          /\ collector' = collector]_vars

\* C28 witness: a second get_stats, half an hour or more after the first,
\* that counts the requests the first one counted
C28_Witness ==
    /\ result.op = "get_stats"
    /\ result.repeats
    /\ result.since < result.at
    /\ IsNone(result.raised)
    /\ Val(result.stats).total_requests > 1
    /\ \A i \in DOMAIN collector.metrics :
          collector.metrics[i].timestamp >= result.since - Val(parse_period(result.period))
             => collector.metrics[i].timestamp >= result.at - Val(parse_period(result.period))

\* C29: a validate_request that raises adds no entry to the rate-limit
\* window of its provider: the requests and token counts recorded in the
\* window after the call are among those recorded before it.
C29_RaisingAddsNoEntry ==
    (IsValidate /\ result.rule # "none") =>
        LET before == result.window_before
            after == IF result.provider \in DOMAIN rate_limit_state
                     THEN rate_limit_state[result.provider]
                     ELSE [requests |-> <<>>, tokens |-> <<>>]
        IN /\ Len(after.requests) <= Len(before.requests)
           /\ Len(after.tokens) <= Len(before.tokens)

\* ------------------------------------------------------------------------
\* Callers of one enforcer: validate_request, the call, record_usage
\* ------------------------------------------------------------------------
\* requests validated and not yet recorded
MaxPending == 2

\* budgets of 0.10 USD around estimates of 0.033 and 0.066 USD
CallerPolicies ==
    {TenantWith(100000, daily, FALSE,
                [p \in {"anthropic"} |-> DefaultProviderPolicy]) :
        daily \in {None, Some(100000)}}

\* a caller validates its request; validated, the request is under way
CallerValidate ==
    /\ Len(threads) < MaxPending
    /\ \E estimated_tokens \in FewTokenEstimates :
          /\ validate_request_body("anthropic", "claude-3-opus", estimated_tokens, None)
          /\ threads' = IF result'.rule = "none"
                        THEN Append(threads, [model |-> "claude-3-opus",
                                              tokens |-> estimated_tokens])
                        ELSE threads
    /\ UNCHANGED <<adapters, chain, world, collector>>

\* a caller whose request was validated records its usage: the tokens and
\* the cost are those of the estimate
CallerRecord ==
    \E i \in DOMAIN threads :
        LET call == threads[i]
            tokens_input == (call.tokens * 7) \div 10
        IN /\ record_usage_body("anthropic", call.model, tokens_input,
                                call.tokens - tokens_input,
                                estimate_cost(call.model, call.tokens), 1000, TRUE)
           /\ threads' = SubSeq(threads, 1, i - 1) \o SubSeq(threads, i + 1, Len(threads))
           /\ UNCHANGED <<adapters, chain, world, collector>>

InitCallers ==
    /\ now = 0
    /\ policy \in CallerPolicies
    /\ usage_records = <<>>
    /\ monthly_spend = 0
    /\ daily_spend = 0
    /\ last_daily_reset = DateOf(0)
    /\ rate_limit_state = [p \in {} |-> EmptyWindow]
    /\ result = NoResult
    /\ adapters = <<>>
    /\ chain = <<>>
    /\ world = <<>>
    /\ threads = <<>>
    /\ collector = <<>>

NextCallers == CallerValidate \/ CallerRecord \/ Tick

SpecCallers == InitCallers /\ [][NextCallers]_vars

\* C30: when every record_usage follows its own successful validation and
\* records the estimated cost, the monthly spend never exceeds
\* monthly_budget_usd and the daily spend never exceeds a daily budget that
\* is set.
C30_SpendWithinBudget ==
    /\ monthly_spend <= policy.monthly_budget_usd
    /\ ~IsNone(policy.daily_budget_usd) => daily_spend <= Val(policy.daily_budget_usd)

\* ------------------------------------------------------------------------
\* The retry after FallbackToLocalError
\* ------------------------------------------------------------------------
\* C31: the validate_request that immediately follows one that raised
\* FallbackToLocalError, for a model whose estimated cost is 0, is not
\* rejected by the daily or the monthly budget check.
C31_FallbackRetryPasses ==
    [][(/\ IsValidate
        /\ result.error = "FallbackToLocalError"
        /\ result'.op = "validate_request"
        /\ estimate_cost(result'.model, result'.estimated_tokens) = 0)
          => result'.rule \notin {"daily_budget", "monthly_budget"}]_vars

\* ------------------------------------------------------------------------
\* The daily spend against the usage of the day
\* ------------------------------------------------------------------------
\* the costs of the usage records written on the UTC date d
RecordedOn(d) ==
    SumFn([i \in {j \in DOMAIN usage_records :
                     DateOf(usage_records[j].timestamp) = d} |->
              usage_records[i].cost_usd])

\* C32: at every daily-budget check the daily spend is the sum of the costs
\* recorded by record_usage on the current UTC date.
C32_DailySpendOfToday ==
    (/\ IsValidate
     /\ result.rule \notin BeforeBudgets
     /\ ~IsNone(policy.daily_budget_usd)
     /\ policy.track_usage) =>
        daily_spend = RecordedOn(DateOf(result.at))

\* ------------------------------------------------------------------------
\* The averages of a usage report
\* ------------------------------------------------------------------------
\* the records at the positions of a set that succeeded
Succeeded(positions) == {i \in positions : usage_records[i].success}

\* C33: in a usage report the avg_latency_ms and the success_rate of a
\* provider are those of the provider's records in the window, as the
\* avg_latency_ms of a model is that of the model's records in the window.
C33_ProviderAverages ==
    (result.op = "get_usage_report" /\ result.report.total_requests > 0) =>
        LET report == result.report
            window == InWindow(result.at, result.days)
            of_provider(p) == {i \in window : usage_records[i].provider = p}
            of_model(mo) == {i \in window : usage_records[i].model = mo}
        IN /\ \A mo \in DOMAIN report.by_model :
                 RatEq(report.by_model[mo].avg_latency_ms,
                       <<Total(of_model(mo), "latency_ms"), Cardinality(of_model(mo))>>)
           /\ \A p \in DOMAIN report.by_provider :
                 /\ RatEq(report.by_provider[p].avg_latency_ms,
                          <<Total(of_provider(p), "latency_ms"),
                            Cardinality(of_provider(p))>>)
                 /\ RatEq(report.by_provider[p].success_rate,
                          <<Cardinality(Succeeded(of_provider(p))) * 100,
                            Cardinality(of_provider(p))>>)

\* ------------------------------------------------------------------------
\* RequestTracker: set_tokens, set_cost, the body that raises
\* ------------------------------------------------------------------------
\* tracked requests of one behaviour
MaxTracked == 3

\* track_request_async: the statements of track_request around an awaited
\* body
track_request_async(tenant_id, request_id, generated, tokens, cost, body_raises, latency, callback_raises) ==
    track_request(tenant_id, request_id, generated, tokens, cost, body_raises,
                  latency, callback_raises)

\* with collector.track_request(...) as tracker: set_tokens, set_cost, raise
TrackSync ==
    /\ world.objects < MaxTracked
    /\ \E tokens \in {<<1000, 500>>, <<0, 0>>},
          cost \in {None, Some(0), Some(20000)},
          body_raises \in {None, Some("ValueError"), Some("KeyboardInterrupt")} :
          track_request("tenant-123", None, "0f3a9c1e", tokens, cost,
                        body_raises, 120, FALSE)

\* async with collector.track_request_async(...) as tracker
TrackAsync ==
    /\ world.objects < MaxTracked
    /\ \E cost \in {None, Some(0)},
          body_raises \in {None, Some("TimeoutError"), Some("CancelledError")} :
          track_request_async("tenant-123", Some("req-async"), "0f3a9c1e",
                              <<1000, 500>>, cost, body_raises, 120, FALSE)

InitTracker ==
    /\ IdleEnforcer
    /\ now = 0
    /\ result = NoResult
    /\ adapters = <<>>
    /\ chain = <<>>
    /\ threads = <<>>
    /\ world = [objects |-> 0, exports |-> 0]
    /\ collector = TelemetryCollector(FALSE, DEFAULT_MAX_HISTORY)

NextTracker == TrackSync \/ TrackAsync

SpecTracker == InitTracker /\ [][NextTracker]_vars

\* C34: the cost given to set_cost is the cost stored for the request,
\* whatever its value, 0 included.
C34_SetCostStored ==
    (result.op = "track_request" /\ ~IsNone(result.cost_set)) =>
        collector.metrics[Len(collector.metrics)].cost_usd = Val(result.cost_set)

\* C35: every tracked request stores one metrics record, whether its body
\* completes or raises; when the body raises the record has success = false
\* and the class name of the exception as error_type, and the exception
\* reaches the caller.
C35_OneRecordPerRequest ==
    /\ Len(collector.metrics) = world.objects
    /\ result.op = "track_request" =>
          LET stored == collector.metrics[Len(collector.metrics)]
          IN /\ stored.id = world.objects
             /\ \A i \in 1..(Len(collector.metrics) - 1) :
                   collector.metrics[i].id # stored.id
             /\ IsNone(result.body_raised) =>
                   /\ stored.success
                   /\ IsNone(result.raised)
             /\ ~IsNone(result.body_raised) =>
                   /\ ~stored.success
                   /\ stored.error_type = result.body_raised
                   /\ result.raised = result.body_raised

\* ------------------------------------------------------------------------
\* Readers beside the producers: get_stats, get_cost_breakdown,
\* get_tenant_stats
\* ------------------------------------------------------------------------
\* get_cost_breakdown, from the AggregatedMetrics its get_stats returned
get_cost_breakdown(stats) ==
    [total_cost_usd |-> stats.total_cost_usd,
     by_provider |->
        [p \in DOMAIN stats.by_provider |->
            [cost_usd |-> stats.by_provider[p].cost,
             percentage |-> IF stats.total_cost_usd > 0
                            THEN <<stats.by_provider[p].cost * 100, stats.total_cost_usd>>
                            ELSE <<0, 1>>]],
     by_model |->
        [mo \in DOMAIN stats.by_model |->
            [cost_usd |-> stats.by_model[mo].cost,
             requests |-> stats.by_model[mo].requests,
             avg_cost |-> IF stats.by_model[mo].requests > 0
                          THEN <<stats.by_model[mo].cost, stats.by_model[mo].requests>>
                          ELSE <<0, 1>>]]]

\* the dictionary get_tenant_stats returns, from the AggregatedMetrics of
\* its own get_stats and the breakdown of get_cost_breakdown
get_tenant_stats(tenant_id, period, stats, cost_breakdown) ==
    [tenant_id |-> tenant_id,
     period |-> period,
     requests |-> [total |-> stats.total_requests,
                   successful |-> stats.successful_requests,
                   failed |-> stats.failed_requests,
                   success_rate |-> IF stats.total_requests > 0
                                    THEN <<stats.successful_requests * 100,
                                           stats.total_requests>>
                                    ELSE <<0, 1>>],
     tokens |-> [input |-> stats.total_input_tokens,
                 output |-> stats.total_output_tokens,
                 total |-> stats.total_input_tokens + stats.total_output_tokens],
     cost |-> cost_breakdown,
     latency |-> [p50 |-> stats.latency_p50, p95 |-> stats.latency_p95,
                  p99 |-> stats.latency_p99, avg |-> stats.latency_avg],
     errors |-> stats.errors_by_type]

\* record calls made beside the reader
MaxReaderRecords == 2

\* record is called by a producer for the tenant the reader asks about: the
\* cost is computed before the lock is asked for
ProducerBeginTenant(c) ==
    /\ threads[c].pc = "idle"
    /\ world.objects < MaxReaderRecords
    /\ \E tenant_id \in Tenants :
          threads' = [threads EXCEPT ![c] =
              [pc |-> "acquire",
               metrics |-> Some(with_cost(LLMRequestMetrics(
                               world.objects + 1, "0f3a9c1e", tenant_id,
                               "openai", "gpt-4o", now)))]]
    /\ world' = [world EXCEPT !.objects = @ + 1]
    /\ UNCHANGED <<now, enforcerVars, adapters, chain, collector>>

IdleReader == [pc |-> "idle", tenant_id |-> None, stats |-> None]

\* the producers inside their export callback
Exporting == {c \in Callers : threads[c].pc = "export"}

StatsPeriod == <<"1", "h">>

\* collector.get_stats(period) by the reader: the history is read under
\* the lock
ReaderGetStats ==
    /\ threads["reader"].pc = "idle"
    /\ lock_free(collector)
    /\ result' = [op |-> "get_stats", exporting |-> Exporting,
                  total_requests |->
                     Val(get_stats(collector, StatsPeriod, None, now).stats).total_requests]
    /\ UNCHANGED <<now, enforcerFields, adapters, chain, world, threads, collector>>

\* get_tenant_stats, first statement: stats = self.get_stats(...)
ReaderTenantStats(tenant_id) ==
    /\ threads["reader"].pc = "idle"
    /\ lock_free(collector)
    /\ threads' = [threads EXCEPT !["reader"] =
                      [pc |-> "get_cost_breakdown", tenant_id |-> Some(tenant_id),
                       stats |-> get_stats(collector, StatsPeriod, Some(tenant_id), now).stats]]
    /\ UNCHANGED <<now, enforcerVars, adapters, chain, world, collector>>

\* get_tenant_stats, second statement: cost_breakdown =
\* self.get_cost_breakdown(...), which calls get_stats again; and the return
ReaderCostBreakdown ==
    /\ threads["reader"].pc = "get_cost_breakdown"
    /\ lock_free(collector)
    /\ LET tenant_id == Val(threads["reader"].tenant_id)
           again == Val(get_stats(collector, StatsPeriod, Some(tenant_id), now).stats)
       IN result' = [op |-> "get_tenant_stats",
                     returned |-> get_tenant_stats(tenant_id, StatsPeriod,
                                                   Val(threads["reader"].stats),
                                                   get_cost_breakdown(again))]
    /\ threads' = [threads EXCEPT !["reader"] = IdleReader]
    /\ UNCHANGED <<now, enforcerFields, adapters, chain, world, collector>>

InitReaders ==
    /\ IdleEnforcer
    /\ now = 0
    /\ result = NoResult
    /\ adapters = <<>>
    /\ chain = <<>>
    /\ threads = [c \in Callers \cup {"reader"} |->
                     IF c = "reader" THEN IdleReader ELSE IdleProducer]
    /\ world = [objects |-> 0, exports |-> 0, completed |-> {}]
    /\ collector = TelemetryCollector(TRUE, DEFAULT_MAX_HISTORY)

NextReaders ==
    \/ \E c \in Callers :
          \/ ProducerBeginTenant(c)
          \/ ProducerAcquire(c)
          \/ ProducerAppendMetrics(c)
          \/ ProducerAppendByTenant(c)
          \/ ProducerTrim(c)
          \/ ProducerExport(c)
    \/ ReaderGetStats
    \/ ReaderTenantStats("tenant-a")
    \/ ReaderCostBreakdown

SpecReaders == InitReaders /\ [][NextReaders]_vars

\* C36: the view get_tenant_stats returns is consistent: the requests per
\* model of its cost breakdown add up to its total request count.
C36_TenantStatsConsistent ==
    result.op = "get_tenant_stats" =>
        LET view == result.returned
        IN SumFn([mo \in DOMAIN view.cost.by_model |-> view.cost.by_model[mo].requests])
              = view.requests.total

\* C37: a producer inside its export callback does not hold the lock, so
\* the lock is free or held by another producer that took it meanwhile, and
\* a get_stats that ran during the callback has read the history.
C37_ExportOutsideLock ==
    /\ \A c \in Callers : threads[c].pc = "export" => collector.lock # Some(c)
    /\ result.op = "get_stats" =>
          result.total_requests >= Cardinality(result.exporting)

\* C37 witness: while t1 is inside its export callback, a get_stats has
\* returned t1's record and t2 has taken the lock for its own
C37_Witness ==
    /\ threads["t1"].pc = "export"
    /\ collector.lock = Some("t2")
    /\ threads["t2"].pc = "append_metrics"
    /\ result.op = "get_stats"
    /\ result.exporting = {"t1"}
    /\ result.total_requests = 1
    /\ world.completed = {}

\* ------------------------------------------------------------------------
\* The failover of AzureOpenAIAdapter.execute
\* ------------------------------------------------------------------------
\* AZURE_OPENAI_RESOURCES naming four resources
FourResources ==
    <<AzureResource("eastus", <<"gpt-4o">>, 1),
      AzureResource("westus", <<"gpt-4o", "gpt-4-turbo">>, 2),
      AzureResource("northeurope", <<"gpt-4-turbo">>, 3),
      AzureResource("japaneast", <<"gpt-4o">>, 4)>>

\* an Azure adapter over the default resources or over four configured
\* ones, a client for each
InitAzure ==
    /\ now = 0
    /\ IdleEnforcer
    /\ result = NoResult
    /\ chain = <<>>
    /\ threads = <<>>
    /\ collector = <<>>
    /\ \E resources \in {DefaultResources, FourResources} :
          adapters = [n \in {"AzureOpenAI-gpt-4o"} |->
                         AzureOpenAIAdapter(resources, ResourceNames(resources), TRUE)]
    /\ world = [api_calls |-> 0, quota_file |-> None]

NextAzure == AzureExecute("AzureOpenAI-gpt-4o")

SpecAzure == InitAzure /\ [][NextAzure]_vars

\* the last call was an execute of the Azure adapter that came to its
\* resources, each of them with a client
AzureFailover ==
    /\ result.op = "execute"
    /\ result.adapter = "AzureOpenAI-gpt-4o"
    /\ ~ExecutedWhileOpen
    /\ result.before.enabled
    /\ result.before.clients = ResourceNames(result.before.resources)

PriorityOf(resources, name) ==
    LET i == CHOOSE i \in DOMAIN resources : resources[i].name = name
    IN resources[i].priority

\* C38: execute reports that all resources failed, and records one failure
\* of the adapter, only after every configured resource was attempted; the
\* resources after the primary are attempted in ascending priority order,
\* none twice, and the first success ends the failover.
C38_AzureFailover ==
    AzureFailover =>
        LET before == result.before
            after == adapters[result.adapter]
            attempted == result.contacted
            last == attempted[Len(attempted)]
        IN /\ Cardinality(SeqRange(attempted)) = Len(attempted)
           /\ \A i \in 2..(Len(attempted) - 1) :
                 PriorityOf(before.resources, attempted[i])
                    <= PriorityOf(before.resources, attempted[i + 1])
           /\ result.status = "success" =>
                 /\ attempted # <<>>
                 /\ after.resource_success_count[last]
                       = before.resource_success_count[last] + 1
                 /\ \A i \in 1..(Len(attempted) - 1) :
                       after.resource_failure_count[attempted[i]]
                          = before.resource_failure_count[attempted[i]] + 1
                 /\ after.failure_count = before.failure_count
           /\ result.status # "success" =>
                 /\ after.failure_count = before.failure_count + 1
                 /\ SeqRange(attempted) = ResourceNames(before.resources)

\* ---------------------------------------------------------------------
\* One Gemini adapter and its quota file: the adapter is constructed over
\* a missing file or over the file an earlier run left at one or two
\* requests below the daily limit, and is then used for a series of
\* requests on the same day.
\* ---------------------------------------------------------------------

QuotaFiles ==
    {None, Some(QuotaData(0, FREE_TIER_DAILY_LIMIT - 2)),
     Some(QuotaData(0, FREE_TIER_DAILY_LIMIT - 1))}

InitGemini ==
    /\ now = 0
    /\ IdleEnforcer
    /\ result = NoResult
    /\ chain = <<>>
    /\ threads = <<>>
    /\ collector = <<>>
    /\ \E use_free_tier \in BOOLEAN, file \in QuotaFiles :
          /\ adapters = [n \in {"Gemini-API"} |->
                            GeminiAdapter(use_free_tier,
                                          load_quota_data(file, 0))]
          /\ world = [api_calls |-> 0, quota_file |-> file]

NextGemini == GeminiExecute("Gemini-API")

SpecGemini == InitGemini /\ [][NextGemini]_vars

\* C39: on the free tier an execute that finds requests_today at the
\* daily limit makes no API call and answers rate_limited; a successful
\* execute raises requests_today, in memory and in the file, by exactly
\* one and any other leaves it alone; so requests_today never passes the
\* daily limit
C39_FreeTierQuota ==
    (result.op = "execute" /\ result.before.use_free_tier) =>
        LET counted == result.before.quota_data.requests_today
            after == adapters[result.adapter].quota_data
        IN /\ counted >= FREE_TIER_DAILY_LIMIT =>
                 /\ result.status = "rate_limited"
                 /\ result.contacted = <<>>
                 /\ world.api_calls = result.api_calls_before
           /\ result.status = "success" =>
                 /\ after.requests_today = counted + 1
                 /\ world.quota_file = Some(after)
                 /\ world.api_calls = result.api_calls_before + 1
           /\ result.status # "success" =>
                 after.requests_today = counted
           /\ after.requests_today <= FREE_TIER_DAILY_LIMIT

\* the adapter has used up the day's last request and the next execute
\* was turned away without an API call
C39_Witness ==
    /\ result.op = "execute"
    /\ result.before.use_free_tier
    /\ result.before.quota_data.requests_today = FREE_TIER_DAILY_LIMIT
    /\ result.before.success_count >= 1
    /\ result.status = "rate_limited"
    /\ world.api_calls = result.api_calls_before

\* ---------------------------------------------------------------------
\* Two Gemini adapters, each in a process of its own, over one quota
\* file.  execute is taken statement by statement: the breaker and quota
\* checks (which reload the file), the API call, and the increment and
\* save that follow a successful call.
\* ---------------------------------------------------------------------

MaxSharedExecutes == 2

Processes == {"p1", "p2"}

\* execute up to the API call: the breaker check and the quota check
GeminiBegin(p) ==
    /\ threads[p].pc = "idle"
    /\ adapters[p].success_count + adapters[p].failure_count
          < MaxSharedExecutes
    /\ LET checked == check_circuit_breaker(adapters[p], now)
           quota == check_quota(checked.adapter, world.quota_file, now)
           loaded == [checked.adapter EXCEPT !.quota_data = quota.quota_data]
       IN IF checked.is_open
          THEN /\ adapters' = [adapters EXCEPT ![p] = checked.adapter]
               /\ result' = [op |-> "execute", adapter |-> p,
                             status |-> "error"]
               /\ UNCHANGED threads
          ELSE IF ~quota.allowed
          THEN /\ adapters' = [adapters EXCEPT ![p] = loaded]
               /\ result' = [op |-> "execute", adapter |-> p,
                             status |-> "rate_limited"]
               /\ UNCHANGED threads
          ELSE /\ adapters' = [adapters EXCEPT ![p] = loaded]
               /\ threads' = [threads EXCEPT ![p].pc = "generate_content"]
               /\ UNCHANGED result
    /\ UNCHANGED <<now, collector, enforcerFields, chain, world>>

\* model_instance.generate_content and, when it fails, the except branch
GeminiGenerate(p) ==
    /\ threads[p].pc = "generate_content"
    /\ \E outcome \in Outcomes :
          IF outcome = "success"
          THEN /\ threads' = [threads EXCEPT ![p].pc = "increment_quota"]
               /\ UNCHANGED <<adapters, result>>
          ELSE /\ adapters' = [adapters EXCEPT
                                  ![p] = record_failure(adapters[p], now)]
               /\ threads' = [threads EXCEPT ![p].pc = "idle"]
               /\ result' = [op |-> "execute", adapter |-> p,
                             status |-> outcome]
    /\ world' = [world EXCEPT !.api_calls = @ + 1]
    /\ UNCHANGED <<now, collector, enforcerFields, chain>>

\* the rest of a successful execute: _increment_quota and _record_success
GeminiFinish(p) ==
    /\ threads[p].pc = "increment_quota"
    /\ LET counted == increment_quota(adapters[p], world.quota_file)
       IN /\ adapters' = [adapters EXCEPT ![p] = record_success(
                              [adapters[p] EXCEPT
                                  !.quota_data = counted.quota_data])]
          /\ world' = [world EXCEPT !.quota_file = counted.quota_file]
    /\ threads' = [threads EXCEPT ![p].pc = "idle"]
    /\ result' = [op |-> "execute", adapter |-> p, status |-> "success"]
    /\ UNCHANGED <<now, collector, enforcerFields, chain>>

InitShared ==
    /\ now = 0
    /\ IdleEnforcer
    /\ result = NoResult
    /\ chain = <<>>
    /\ collector = <<>>
    /\ threads = [p \in Processes |-> [pc |-> "idle"]]
    /\ \E file \in QuotaFiles :
          /\ adapters = [p \in Processes |->
                            GeminiAdapter(TRUE, load_quota_data(file, 0))]
          /\ world = [api_calls |-> 0, quota_file |-> file,
                      requests_before |->
                          load_quota_data(file, 0).requests_today]

NextShared ==
    \E p \in Processes :
        \/ GeminiBegin(p)
        \/ GeminiGenerate(p)
        \/ GeminiFinish(p)

SpecShared == InitShared /\ [][NextShared]_vars

\* the successful free-tier requests of the day, over both adapters
SharedSuccesses ==
    adapters["p1"].success_count + adapters["p2"].success_count

\* C40: with two adapters executing over one quota file, once both are
\* between requests the file's requests_today is the day's earlier count
\* plus every successful request of either adapter, and that total stays
\* within the daily limit
C40_SharedQuota ==
    (/\ DOMAIN adapters = Processes
     /\ \A p \in Processes : threads[p].pc = "idle") =>
        /\ load_quota_data(world.quota_file, now).requests_today
              = world.requests_before + SharedSuccesses
        /\ world.requests_before + SharedSuccesses
              <= FREE_TIER_DAILY_LIMIT

====
